---- MODULE Spec2Model ----
(***************************************************************************)
(* Model of Q4_Comparison_Simulation.py: one call of run_simulation, i.e.  *)
(* one replication of the order-picking discrete-event simulation, for the *)
(* baseline ('before') and the optimized ('after') scenario (Spec and its  *)
(* variants), calls of run_simulation one after another (RepSpec), and the *)
(* computations made outside the event loop: the replication spans         *)
(* (SpanSpec), the service time of a pick (SvcSpec) and the methods of an  *)
(* InventoryManager called in any order (LedgerSpec).                      *)
(*                                                                         *)
(* Simulated time is counted in whole minutes.  The simpy environment is   *)
(* modelled by its event queue, ordered by (time, priority, insertion      *)
(* order); one step of the model is one env.step(): the head event is      *)
(* popped, the clock moves to its time and the process waiting for it runs *)
(* up to its next yield.  Events nobody waits for (the value of a Release, *)
(* the end of a process) carry no callback that changes state, except the  *)
(* Release event, whose callback hands the freed slot to the queue's head. *)
(***************************************************************************)
EXTENDS Integers, Sequences, FiniteSets, TLC

\* ------------------------------------------------------------------ bounds
NUM_DAYS == 2              \* days per replication (7 in the source)
DAY_DURATION == 16         \* minutes per day (960 in the source)
MaxTasks == 3              \* pick lines replayed in one replication
MaxQty == 2                \* largest ScanQty of a pick line
MaxService == 2            \* largest total_service drawn for a pick
MaxReplenish == 2          \* largest replenish_time drawn
MaxPickers == 2            \* largest n_pickers passed to run_simulation

MaxRuns == 3               \* calls of run_simulation followed one after another
MaxPart == 2               \* largest value drawn for a component of the service time
MaxBoxes == 3              \* largest number of inner boxes of a pick line
MaxReorder == 4            \* largest ReorderPoint of a configuration tried
NUM_REPLICATIONS == 3      \* replications of the main loop (10 in the source)
MaxShippingDays == 7       \* distinct shipping days in the pick data
MaxCalls == 5              \* calls made on one InventoryManager object
MaxLedgerQty == 4          \* largest quantity asked of the object

SIM_DURATION == DAY_DURATION * NUM_DAYS

\* --------------------------------------------------------- program constants
check_interval == 30       \* replenishment_process: minutes between scans
retry_interval == 1        \* pick_order_after_fpa: minutes between stock polls
monitor_interval == 10     \* monitor: minutes between samples
box_size == 10             \* pieces per inner box: pick_time counts ceil(qty / 10) boxes
URGENT == 0                \* simpy priority of Initialize events
NORMAL == 1                \* simpy priority of every other event

\* ------------------------------------------------------------------ inputs
\* Rows of Simio_SKU_Params.csv, in file order (the ledger's key order).
SkuOrder == <<"A", "B">>
Skus == {SkuOrder[k] : k \in 1..Len(SkuOrder)}
InitialPieces == [s \in Skus |-> IF s = "A" THEN 0 ELSE 3]
MaxPieces == [s \in Skus |-> IF s = "A" THEN 50 ELSE 3]
ReorderPoint == [s \in Skus |-> IF s = "A" THEN 10 ELSE 1]

\* Part numbers of the pick lines; "Z" is a part that is not an FPA SKU.
Parts == Skus \cup {"Z"}
Days == 0..(NUM_DAYS - 1)
Hours == {0, 1}
Minutes == {0}
Qtys == 1..MaxQty
ServiceTimes == 1..MaxService
ReplenishTimes == 1..MaxReplenish
PickerCounts == 1..MaxPickers

Task == [DayIndex : Days, DeliveryHour : Hours, DeliveryMinute : Minutes,
         PartNo : Parts, ScanQty : Qtys]

\* Lexicographic order on the sort key of order_generator.
KeyLeq(a, b) ==
    \/ a.DayIndex < b.DayIndex
    \/ /\ a.DayIndex = b.DayIndex
       /\ \/ a.DeliveryHour < b.DeliveryHour
          \/ /\ a.DeliveryHour = b.DeliveryHour
             /\ a.DeliveryMinute <= b.DeliveryMinute

\* pick_data.sort_values(['DayIndex','DeliveryHour','DeliveryMinute']): the
\* replayed list is sorted; rows with equal keys come in any order.
IsSorted(ts) == \A k \in 1..(Len(ts) - 1) : KeyLeq(ts[k], ts[k + 1])

\* rep_data holds the rows of the span's days, and a day is in the span only
\* if some row has it: every day index carries at least one task.
CoversDays(ts) == \A d \in Days : \E k \in 1..Len(ts) : ts[k].DayIndex = d

TaskLists == {ts \in [1..MaxTasks -> Task] : IsSorted(ts) /\ CoversDays(ts)}

PickIds == 1..MaxTasks

\* order_generator takes any pick_data: rows whose DayIndex runs one past the
\* days of the run, and lists in which some day index has no row.
WideDays == 0..NUM_DAYS
WideTask == [DayIndex : WideDays, DeliveryHour : Hours, DeliveryMinute : Minutes,
             PartNo : Parts, ScanQty : {MaxQty}]
WideTaskLists == {ts \in [1..MaxTasks -> WideTask] : IsSorted(ts)}

VARIABLES
    scenario,     \* 'before' or 'after'
    n_pickers,    \* capacity of the picker pool
    tasks,        \* pick_data_sorted
    now,          \* env.now
    queue,        \* the environment's event queue
    users,        \* pickers.users: requests holding a slot
    put_queue,    \* pickers.put_queue: requests waiting for a slot
    ledger,       \* the InventoryManager
    stats,        \* the Statistics accumulator
    pick,         \* locals and position of every pick process
    gen,          \* locals and position of order_generator
    repl,         \* locals and position of replenishment_process
    run,          \* "running", "ended" (env.run returned), "crashed", or
                  \* "idle" (no call of run_simulation is under way)
    hist,         \* history of the run, recorded for the properties
    calls,        \* the calls of run_simulation: their number, the values
                  \* the seeded generator gave, the returned results
    aux           \* module-level computations outside run_simulation

vars == <<scenario, n_pickers, tasks, now, queue, users, put_queue, ledger,
          stats, pick, gen, repl, run, hist, calls, aux>>

\* ------------------------------------------------------------ small helpers
Max(a, b) == IF a >= b THEN a ELSE b
Min(a, b) == IF a <= b THEN a ELSE b

RECURSIVE SumSeq(_)
SumSeq(s) == IF s = <<>> THEN 0 ELSE Head(s) + SumSeq(Tail(s))

Remove(s, x) == SelectSeq(s, LAMBDA y : y # x)
InSeq(s, x) == \E k \in 1..Len(s) : s[k] = x

\* ------------------------------------------------------------- event queue
Event(t, prio, kind, proc) == [time |-> t, prio |-> prio, kind |-> kind, proc |-> proc]

\* Mutant: an event goes in front of the events of the same time and priority.
Schedule_lifo(q, ev) ==
    LET before == SelectSeq(q, LAMBDA e : e.time < ev.time \/
                                         (e.time = ev.time /\ e.prio < ev.prio))
        after == SelectSeq(q, LAMBDA e : ~(e.time < ev.time \/
                                           (e.time = ev.time /\ e.prio < ev.prio)))
    IN before \o <<ev>> \o after

\* Environment.schedule: heappush of (time, priority, eid, event); eid grows
\* with every push, so an event goes behind all events of the same time and
\* priority already queued.
Schedule(q, ev) ==
    LET before == SelectSeq(q, LAMBDA e : e.time < ev.time \/
                                         (e.time = ev.time /\ e.prio <= ev.prio))
        after == SelectSeq(q, LAMBDA e : ~(e.time < ev.time \/
                                           (e.time = ev.time /\ e.prio <= ev.prio)))
    IN before \o <<ev>> \o after

RECURSIVE ScheduleAll(_, _)
ScheduleAll(q, evs) ==
    IF evs = <<>> THEN q ELSE ScheduleAll(Schedule(q, Head(evs)), Tail(evs))

\* env.run(until=SIM_DURATION): the stop event is queued first, URGENT, at
\* SIM_DURATION, so no event due at or after SIM_DURATION is processed.
Runnable == run = "running" /\ queue # <<>> /\ Head(queue).time < SIM_DURATION
Cur == Head(queue)

\* --------------------------------------------------------- InventoryManager
\* sku_params_df: one row per SKU with the three GIVEN columns.
SkuParams(initial, maxp, reorder) ==
    [s \in Skus |-> [InitialPieces |-> initial[s], MaxPieces |-> maxp[s],
                     ReorderPoint |-> reorder[s]]]

sku_params == SkuParams(InitialPieces, MaxPieces, ReorderPoint)

\* InventoryManager.__init__: the three columns are copied as they are and
\* the counters start at 0.
InventoryManager(sku_params_df) ==
    [inventory |-> [s \in Skus |-> sku_params_df[s].InitialPieces],
     max_pieces |-> [s \in Skus |-> sku_params_df[s].MaxPieces],
     reorder_point |-> [s \in Skus |-> sku_params_df[s].ReorderPoint],
     stockouts |-> [s \in Skus |-> 0],
     stockout_qty |-> [s \in Skus |-> 0],
     replenishments |-> [s \in Skus |-> 0],
     total_picks |-> 0, successful_picks |-> 0, failed_picks |-> 0]

\* `inventory_mgr = None`: the baseline scenario has no ledger.  None is the
\* record without fields.
None == <<>>
IsNone(x) == DOMAIN x = {}

NewLedger == InventoryManager(sku_params)

\* Mutant: the call for a part that is not in the ledger is not counted as
\* a success.
PickUnlisted_uncounted(l, qty) ==
    [ledger |-> [l EXCEPT !.total_picks = @ + 1],
     success |-> TRUE, picked |-> qty]

\* check_and_pick for a part that is not in the ledger (lines 69-72).
PickUnlisted(l, qty) ==
    [ledger |-> [l EXCEPT !.total_picks = @ + 1, !.successful_picks = @ + 1],
     success |-> TRUE, picked |-> qty]

\* Mutant: the stock is not compared with the requested quantity.
check_and_pick_unchecked(l, part_no, qty) ==
    IF part_no \notin DOMAIN l.inventory THEN PickUnlisted(l, qty) ELSE
    [ledger |-> [l EXCEPT !.total_picks = @ + 1,
                          !.inventory[part_no] = @ - qty,
                          !.successful_picks = @ + 1],
     success |-> TRUE, picked |-> qty]

\* Mutant: a fulfilled pick leaves the quantity as it was.
check_and_pick_nodecrement(l, part_no, qty) ==
    IF part_no \notin DOMAIN l.inventory THEN PickUnlisted(l, qty) ELSE
    IF l.inventory[part_no] >= qty
    THEN [ledger |-> [l EXCEPT !.total_picks = @ + 1, !.successful_picks = @ + 1],
          success |-> TRUE, picked |-> qty]
    ELSE [ledger |-> [l EXCEPT !.total_picks = @ + 1,
                               !.inventory[part_no] = 0,
                               !.stockouts[part_no] = @ + 1,
                               !.stockout_qty[part_no] = @ + (qty - l.inventory[part_no]),
                               !.failed_picks = @ + 1],
          success |-> FALSE, picked |-> l.inventory[part_no]]

\* Mutant: the complete stockout returns success.
check_and_pick_grant_empty(l, part_no, qty) ==
    IF part_no \notin DOMAIN l.inventory THEN PickUnlisted(l, qty) ELSE
    IF l.inventory[part_no] >= qty
    THEN [ledger |-> [l EXCEPT !.total_picks = @ + 1,
                               !.inventory[part_no] = @ - qty,
                               !.successful_picks = @ + 1],
          success |-> TRUE, picked |-> qty]
    ELSE IF l.inventory[part_no] > 0
    THEN [ledger |-> [l EXCEPT !.total_picks = @ + 1,
                               !.inventory[part_no] = 0,
                               !.stockouts[part_no] = @ + 1,
                               !.stockout_qty[part_no] = @ + (qty - l.inventory[part_no]),
                               !.failed_picks = @ + 1],
          success |-> FALSE, picked |-> l.inventory[part_no]]
    ELSE [ledger |-> [l EXCEPT !.total_picks = @ + 1,
                               !.stockouts[part_no] = @ + 1,
                               !.stockout_qty[part_no] = @ + qty,
                               !.failed_picks = @ + 1],
          success |-> TRUE, picked |-> 0]

\* Mutant: a partial fulfilment is counted as a successful call, though it
\* returns failure.
check_and_pick_partial_counted(l, part_no, qty) ==
    IF part_no \notin DOMAIN l.inventory THEN PickUnlisted(l, qty) ELSE
    IF l.inventory[part_no] >= qty
    THEN [ledger |-> [l EXCEPT !.total_picks = @ + 1,
                               !.inventory[part_no] = @ - qty,
                               !.successful_picks = @ + 1],
          success |-> TRUE, picked |-> qty]
    ELSE IF l.inventory[part_no] > 0
    THEN [ledger |-> [l EXCEPT !.total_picks = @ + 1,
                               !.inventory[part_no] = 0,
                               !.stockouts[part_no] = @ + 1,
                               !.stockout_qty[part_no] = @ + (qty - l.inventory[part_no]),
                               !.successful_picks = @ + 1],
          success |-> FALSE, picked |-> l.inventory[part_no]]
    ELSE [ledger |-> [l EXCEPT !.total_picks = @ + 1,
                               !.stockouts[part_no] = @ + 1,
                               !.stockout_qty[part_no] = @ + qty,
                               !.failed_picks = @ + 1],
          success |-> FALSE, picked |-> 0]

\* InventoryManager.check_and_pick: the ledger afterwards and the returned pair.
check_and_pick(l, part_no, qty) ==
    LET l1 == [l EXCEPT !.total_picks = @ + 1] IN
    IF part_no \notin DOMAIN l.inventory
    THEN PickUnlisted(l, qty)
    ELSE IF l.inventory[part_no] >= qty
    THEN [ledger |-> [l1 EXCEPT !.inventory[part_no] = @ - qty,
                                !.successful_picks = @ + 1],
          success |-> TRUE, picked |-> qty]
    ELSE IF l.inventory[part_no] > 0
    THEN [ledger |-> [l1 EXCEPT !.inventory[part_no] = 0,
                                !.stockouts[part_no] = @ + 1,
                                !.stockout_qty[part_no] =
                                    @ + (qty - l.inventory[part_no]),
                                !.failed_picks = @ + 1],
          success |-> FALSE, picked |-> l.inventory[part_no]]
    ELSE [ledger |-> [l1 EXCEPT !.stockouts[part_no] = @ + 1,
                                !.stockout_qty[part_no] = @ + qty,
                                !.failed_picks = @ + 1],
          success |-> FALSE, picked |-> 0]

\* Mutant: a part that is not in the ledger counts as empty.
needs_replenishment_default(l, part_no) ==
    IF part_no \notin DOMAIN l.inventory
    THEN TRUE
    ELSE l.inventory[part_no] <= l.reorder_point[part_no]

needs_replenishment(l, part_no) ==
    IF part_no \notin DOMAIN l.inventory
    THEN FALSE
    ELSE l.inventory[part_no] <= l.reorder_point[part_no]

\* Mutant: the replenishment adds max_pieces to what is there.
replenish_add(l, part_no) ==
    IF part_no \in DOMAIN l.inventory
    THEN [l EXCEPT !.inventory[part_no] = @ + l.max_pieces[part_no],
                   !.replenishments[part_no] = @ + 1]
    ELSE l

replenish(l, part_no) ==
    IF part_no \in DOMAIN l.inventory
    THEN [l EXCEPT !.inventory[part_no] = l.max_pieces[part_no],
                   !.replenishments[part_no] = @ + 1]
    ELSE l

\* --------------------------------------------------------------- Statistics
NewStatistics ==
    [picks_completed |-> 0, picks_attempted |-> 0, stockouts |-> 0,
     wait_times |-> <<>>, flow_times |-> <<>>, service_times |-> <<>>,
     queue_lengths |-> <<>>, utilization_samples |-> <<>>,
     stock_wait_times |-> <<>>]


\* An entry of wait_times, service_times or flow_times is kept together with
\* the pick that appended it.  A utilization sample pickers.count /
\* pickers.capacity is kept as the pair <<count, capacity>>.
Sample(i, v) == [pick |-> i, value |-> v]
Contributed(samples, i) == \E k \in 1..Len(samples) : samples[k].pick = i

NewPick ==
    [pc |-> "unborn", original_arrival_time |-> 0, wait_for_stock_start |-> 0,
     had_stockout |-> FALSE, arrival_time |-> 0, total_service |-> 0]

NewHist ==
    [req_order |-> <<>>,        \* picks in the order they requested a slot
     waited |-> {},             \* picks whose request was queued
     max_queue |-> 0,           \* largest length the put queue has had
     grant_order |-> <<>>,      \* picks in the order they were granted a slot
     done_time |-> [i \in PickIds |-> -1],
     attempted_by |-> <<>>,     \* who incremented picks_attempted
     stockout_by |-> <<>>,      \* who incremented stats.stockouts
     partial |-> {},            \* picks that met a partial fulfilment
     completed_by |-> <<>>,     \* who incremented picks_completed
     level_at |-> InitialPieces,           \* quantity at the last replenishment
     granted_since |-> [s \in Skus |-> 0], \* granted by successful calls since
     replenished_at |-> <<>>,   \* times at which replenish() was called
     added |-> [s \in Skus |-> 0],         \* sum of the amounts replenish() added
     repl_seen |-> [i \in PickIds |-> 0],  \* replenishments of the pick's SKU
                                          \* at its last failed poll
     after_restock |-> {},      \* picks that left the retry loop after a
                                \* replenishment of their SKU
     restocked_from |-> {},     \* <<SKU, quantity>> just before a replenishment
     empty_since |-> [s \in Skus |-> IF InitialPieces[s] = 0 THEN 0 ELSE -1],
                                \* when the SKU became empty; -1: it is not
     charged |-> 0,             \* sum of the replenish_time values drawn
     busy_until |-> 0,          \* end of the last replenish_time timeout
     slack |-> [s \in Skus |-> 0],   \* when the SKU became empty: the rest of
                                \* the timeout in progress, minus charged
     outage |-> [s \in Skus |-> -1],       \* how long the SKU was empty when
                                          \* it was last restocked
     outage_allow |-> [s \in Skus |-> 0],  \* check_interval plus the time
                                \* charged while it was empty
     start_time |-> [i \in PickIds |-> -1],  \* when the pick process started
     req_time |-> [i \in PickIds |-> -1],    \* when it requested a slot
     grant_time |-> [i \in PickIds |-> -1]]  \* when it was given the slot

\* ------------------------------------------------------------ Resource pool
\* Mutant: the head of the put queue is granted a slot whether one is free or not.
TriggerPut_nocapacity(u, pq, capacity) ==
    IF pq # <<>>
    THEN [users |-> Append(u, Head(pq)), put_queue |-> Tail(pq), granted |-> <<Head(pq)>>]
    ELSE [users |-> u, put_queue |-> pq, granted |-> <<>>]

\* BaseResource._trigger_put with Resource._do_put: only the head of the put
\* queue is tried, and it is granted a slot if one is free.
TriggerPut(u, pq, capacity) ==
    IF pq # <<>> /\ Len(u) < capacity
    THEN [users |-> Append(u, Head(pq)), put_queue |-> Tail(pq), granted |-> <<Head(pq)>>]
    ELSE [users |-> u, put_queue |-> pq, granted |-> <<>>]

\* Mutant: the newest request goes to the front of the put queue.
Request_front(u, pq, i, capacity) == TriggerPut(u, <<i>> \o pq, capacity)

\* pickers.request(): the request joins the put queue, then _trigger_put.
Request(u, pq, i, capacity) == TriggerPut(u, Append(pq, i), capacity)

\* Mutant: the slot is kept when the with block is left.
Release_keep(u, i) == u

\* pickers.release(request), Resource._do_get: the request leaves users.
Release(u, i) == Remove(u, i)

GrantEvents(granted, t) == [k \in 1..Len(granted) |-> Event(t, NORMAL, "pick", granted[k])]

\* ---------------------------------------------------------- order_generator
\* Mutant: the time of day is not clipped to the day.
time_in_day_unclipped(row) == row.DeliveryHour * 60 + row.DeliveryMinute

time_in_day(row) == Min(row.DeliveryHour * 60 + row.DeliveryMinute, DAY_DURATION - 1)

\* day_start_times after the row's day has been entered (lines 573-579).
DayStart(dst, d) ==
    IF d \in DOMAIN dst THEN dst
    ELSE IF d = 0 THEN dst @@ (0 :> 0)
    ELSE dst @@ (d :> dst[d - 1] + DAY_DURATION)

\* The lookup day_start_times[current_day - 1] raises KeyError when the
\* previous day index was never entered.
DayKnown(dst, d) == d \in DOMAIN dst \/ d = 0 \/ (d - 1) \in DOMAIN dst

arrival_time_min(dst, row) == DayStart(dst, row.DayIndex)[row.DayIndex] + time_in_day(row)

\* Mutant: no arrival time counts as beyond the run.
BeyondRun_never(arrival) == FALSE

\* Lines 585-586: `if arrival_time_min >= SIM_DURATION: break`.
BeyondRun(arrival) == arrival >= SIM_DURATION

\* Mutant: the generator waits for the whole arrival time, not for what is
\* left of it since the previous row.
wait_until_from_start(arrival, prev_arrival) == arrival

\* Line 589: how long the generator waits before it spawns the row.
wait_until(arrival, prev_arrival) == Max(0, arrival - prev_arrival)

\* The for loop of order_generator from row i on, up to its next yield, its
\* break, its end or an exception; spawned lists the rows whose pick process
\* was created on the way.
RECURSIVE GenLoop(_, _, _, _, _)
GenLoop(ts, i, prev, dst, spawned) ==
    IF i > Len(ts)
    THEN [pc |-> "done", i |-> i, prev_arrival |-> prev, arrival |-> prev,
          day_start_times |-> dst, spawned |-> spawned]
    ELSE IF ~DayKnown(dst, ts[i].DayIndex)
    THEN [pc |-> "crashed", i |-> i, prev_arrival |-> prev, arrival |-> prev,
          day_start_times |-> dst, spawned |-> spawned]
    ELSE LET dst1 == DayStart(dst, ts[i].DayIndex)
             arrival == arrival_time_min(dst, ts[i])
         IN IF BeyondRun(arrival)
            THEN [pc |-> "done", i |-> i, prev_arrival |-> prev, arrival |-> arrival,
                  day_start_times |-> dst1, spawned |-> spawned]
            ELSE IF wait_until(arrival, prev) > 0
            THEN [pc |-> "wait", i |-> i, prev_arrival |-> prev, arrival |-> arrival,
                  day_start_times |-> dst1, spawned |-> spawned]
            ELSE GenLoop(ts, i + 1, arrival, dst1, Append(spawned, i))

NewGen == [pc |-> "start", i |-> 1, prev_arrival |-> 0, arrival |-> 0,
           day_start_times |-> <<>>]

\* env.process(pick_order_...): an Initialize event, URGENT, at the current time.
SpawnEvents(spawned, t) == [k \in 1..Len(spawned) |-> Event(t, URGENT, "pick", spawned[k])]

\* order_generator resumes: at its start, or after the timeout that brought
\* the clock to row i's arrival time, in which case row i is spawned first.
GenStep ==
    /\ Runnable
    /\ Cur.kind = "gen"
    /\ LET t == Cur.time
           r == IF gen.pc = "start"
                THEN GenLoop(tasks, 1, 0, <<>>, <<>>)
                ELSE GenLoop(tasks, gen.i + 1, gen.arrival, gen.day_start_times, <<gen.i>>)
           q1 == ScheduleAll(Tail(queue), SpawnEvents(r.spawned, t))
       IN /\ now' = t
          /\ gen' = [pc |-> r.pc, i |-> r.i, prev_arrival |-> r.prev_arrival,
                     arrival |-> r.arrival, day_start_times |-> r.day_start_times]
          /\ pick' = [i \in PickIds |->
                        IF InSeq(r.spawned, i) THEN [pick[i] EXCEPT !.pc = "init"]
                        ELSE pick[i]]
          /\ queue' = IF r.pc = "wait"
                      THEN Schedule(q1, Event(t + wait_until(r.arrival, r.prev_arrival),
                                              NORMAL, "gen", 0))
                      ELSE q1
          /\ run' = IF r.pc = "crashed" THEN "crashed" ELSE run
    /\ UNCHANGED <<aux, calls, scenario, n_pickers, tasks, users, put_queue, ledger, stats, repl, hist>>


\* ------------------------------------------------------ the seeded generator
\* random.seed(42) at the head of run_simulation: every call reads the same
\* stream.  A value drawn is a function of the draws made before it in the
\* call and of what is drawn (the process and the distributions it reads), so
\* a call that has made the draws of an earlier call so far, and draws the
\* same thing next, gets the value the earlier call got; any other draw may
\* give any value of the distribution.
DrawKey(kind, proc) == [kind |-> kind, proc |-> proc]

\* Mutant: the generator is not seeded, every draw may give any value.
Draws_unseeded(key, S) == S

Draws(key, S) ==
    LET k == Len(calls.tape) + 1
        same == {e \in 1..Len(calls.earlier) :
                    /\ k <= Len(calls.earlier[e].tape)
                    /\ SubSeq(calls.earlier[e].tape, 1, k - 1) = calls.tape
                    /\ calls.earlier[e].tape[k].key = key}
    IN IF same = {} THEN S ELSE {calls.earlier[e].tape[k].value : e \in same}

Drawn(c, key, value) == [c EXCEPT !.tape = Append(@, [key |-> key, value |-> value])]

NewCalls == [n |-> 1, tape |-> <<>>, result |-> None, earlier |-> <<>>]

\* ------------------------------------------------------------ pick processes
\* `with pickers.request() as request: yield request` of pick i at time t:
\* pool, event queue and history afterwards.
Acquire(i, t, q) ==
    LET r == Request(users, put_queue, i, n_pickers) IN
    [users |-> r.users, put_queue |-> r.put_queue,
     queue |-> ScheduleAll(q, GrantEvents(r.granted, t)),
     hist |-> [hist EXCEPT !.req_order = Append(@, i),
                           !.waited = IF InSeq(r.put_queue, i) THEN @ \cup {i} ELSE @,
                           !.max_queue = Max(@, Len(r.put_queue)),
                           !.grant_order = @ \o r.granted,
                           !.req_time[i] = t,
                           !.grant_time[i] = IF InSeq(r.granted, i) THEN t ELSE @]]

\* pick_order_before_fpa from its start to `yield request` (lines 421-445).
PickBeforeStart(i) ==
    /\ Runnable
    /\ Cur.kind = "pick" /\ Cur.proc = i
    /\ scenario = "before"
    /\ pick[i].pc = "init"
    /\ \E total_service \in Draws(DrawKey("before", i), ServiceTimes) :
         LET t == Cur.time
             a == Acquire(i, t, Tail(queue))
         IN /\ now' = t
            /\ calls' = Drawn(calls, DrawKey("before", i), total_service)
            /\ pick' = [pick EXCEPT ![i] = [@ EXCEPT !.pc = "req",
                                                     !.original_arrival_time = t,
                                                     !.arrival_time = t,
                                                     !.total_service = total_service]]
            /\ users' = a.users
            /\ put_queue' = a.put_queue
            /\ queue' = a.queue
            /\ hist' = [a.hist EXCEPT !.start_time[i] = t]
    /\ UNCHANGED <<aux, scenario, n_pickers, tasks, ledger, stats, gen, repl, run>>

\* Mutant: the stockout is counted in picks_completed.
RecordStockout_as_completed(st, had_stockout) ==
    IF had_stockout THEN st ELSE [st EXCEPT !.picks_completed = @ + 1]

\* Mutant: the stockout is counted at every failed poll.
RecordStockout_every_poll(st, had_stockout) ==
    [st EXCEPT !.stockouts = @ + 1]

\* The else branch of the stock loop (lines 488-494): the stockout is counted
\* once per pick.
RecordStockout(st, had_stockout) ==
    IF had_stockout THEN st ELSE [st EXCEPT !.stockouts = @ + 1]

\* Mutant: a stock wait is recorded for every pick, waited or not.
RecordStockWait_always(st, stock_wait_time) ==
    [st EXCEPT !.stock_wait_times = Append(@, stock_wait_time)]

\* Lines 500-503: the stock wait is recorded only if the pick had to wait.
RecordStockWait(st, stock_wait_time) ==
    IF stock_wait_time > 0
    THEN [st EXCEPT !.stock_wait_times = Append(@, stock_wait_time)]
    ELSE st

\* Mutant: the retry is due at the instant of the failed poll.
RetryAt_at_once(t) == t

\* Line 494, `yield env.timeout(1)`: when the next poll is due.
RetryAt(t) == t + retry_interval

\* History of one check_and_pick call on a ledger SKU.
\* History: the SKU has just become empty at time t.
NoteEmpty(h, part_no, l, t) ==
    IF l.inventory[part_no] = 0 /\ h.empty_since[part_no] < 0
    THEN [h EXCEPT !.empty_since[part_no] = t,
                   !.slack[part_no] = Max(0, h.busy_until - t) - h.charged]
    ELSE h

NoteCall(h, i, part_no, res) ==
    IF part_no \notin Skus THEN h
    ELSE IF res.success
    THEN [h EXCEPT !.granted_since[part_no] = @ + res.picked,
                   !.after_restock =
                       IF /\ InSeq(h.stockout_by, i)
                          /\ res.ledger.replenishments[part_no] > h.repl_seen[i]
                       THEN @ \cup {i} ELSE @]
    ELSE [h EXCEPT !.partial = IF res.picked > 0 THEN @ \cup {i} ELSE @,
                   !.repl_seen[i] = res.ledger.replenishments[part_no]]

\* pick_order_after_fpa: from its start (lines 471-482), or from the resumption
\* after `yield env.timeout(1)` (lines 496-498), through one pass of the stock
\* loop, to the next yield: the retry timeout or `yield request`.
PickStock(i) ==
    /\ Runnable
    /\ Cur.kind = "pick" /\ Cur.proc = i
    /\ scenario = "after"
    /\ pick[i].pc \in {"init", "retry"}
    /\ LET t == Cur.time
           first == pick[i].pc = "init"
           p0 == IF first
                 THEN [pick[i] EXCEPT !.original_arrival_time = t,
                                      !.wait_for_stock_start = t,
                                      !.had_stockout = FALSE]
                 ELSE pick[i]
           st0 == IF first THEN [stats EXCEPT !.picks_attempted = @ + 1] ELSE stats
           h0 == IF first
                 THEN [hist EXCEPT !.attempted_by = Append(@, i), !.start_time[i] = t]
                 ELSE hist
           part_no == tasks[i].PartNo
           qty_requested == tasks[i].ScanQty
           res == check_and_pick(ledger, part_no, qty_requested)
       IN /\ now' = t
          /\ IF ~first /\ t >= SIM_DURATION
             THEN \* line 498: return
                  /\ pick' = [pick EXCEPT ![i] = [@ EXCEPT !.pc = "abandoned"]]
                  /\ queue' = Tail(queue)
                  /\ UNCHANGED <<users, put_queue, ledger, stats, hist, calls>>
             ELSE IF res.success
             THEN \E total_service \in Draws(DrawKey("after", i), ServiceTimes) :
                    LET a == Acquire(i, t, Tail(queue)) IN
                    /\ calls' = Drawn(calls, DrawKey("after", i), total_service)
                    /\ ledger' = res.ledger
                    /\ stats' = RecordStockWait(st0, t - p0.wait_for_stock_start)
                    /\ pick' = [pick EXCEPT ![i] = [p0 EXCEPT !.pc = "req",
                                                              !.arrival_time = t,
                                                              !.total_service = total_service]]
                    /\ users' = a.users
                    /\ put_queue' = a.put_queue
                    /\ queue' = a.queue
                    /\ hist' = LET h1 == NoteCall([a.hist EXCEPT
                                                       !.attempted_by = h0.attempted_by,
                                                       !.start_time = h0.start_time],
                                                  i, part_no, res)
                               IN IF part_no \in Skus
                                  THEN NoteEmpty(h1, part_no, res.ledger, t)
                                  ELSE h1
             ELSE /\ ledger' = res.ledger
                  /\ stats' = RecordStockout(st0, p0.had_stockout)
                  /\ pick' = [pick EXCEPT ![i] = [p0 EXCEPT !.pc = "retry",
                                                            !.had_stockout = TRUE]]
                  /\ queue' = Schedule(Tail(queue),
                                       Event(RetryAt(t), NORMAL, "pick", i))
                  /\ hist' = LET h1 == NoteCall([h0 EXCEPT !.stockout_by =
                                                    IF p0.had_stockout THEN @
                                                    ELSE Append(@, i)],
                                                i, part_no, res)
                             IN IF part_no \in Skus
                                THEN NoteEmpty(h1, part_no, res.ledger, t)
                                ELSE h1
                  /\ UNCHANGED <<users, put_queue, calls>>
    /\ UNCHANGED <<aux, scenario, n_pickers, tasks, gen, repl, run>>

\* Mutant: the wait is recorded only if the pick had to queue.
RecordWait_only_if_waited(st, i, wait_time) ==
    IF wait_time > 0
    THEN [st EXCEPT !.wait_times = Append(@, Sample(i, wait_time))]
    ELSE st

\* The request event fires: lines 446-450 / 532-536.
RecordWait(st, i, wait_time) ==
    [st EXCEPT !.wait_times = Append(@, Sample(i, wait_time))]

PickGranted(i) ==
    /\ Runnable
    /\ Cur.kind = "pick" /\ Cur.proc = i
    /\ pick[i].pc = "req"
    /\ LET t == Cur.time IN
       /\ now' = t
       /\ stats' = RecordWait(stats, i, t - pick[i].arrival_time)
       /\ pick' = [pick EXCEPT ![i] = [@ EXCEPT !.pc = "service"]]
       /\ queue' = Schedule(Tail(queue), Event(t + pick[i].total_service, NORMAL, "pick", i))
    /\ UNCHANGED <<aux, calls, scenario, n_pickers, tasks, users, put_queue, ledger, gen, repl, run, hist>>

\* Mutant: the flow time recorded is the service time alone.
RecordCompletion_flow_is_service(st, i, total_service, flow_time) ==
    [st EXCEPT !.service_times = Append(@, Sample(i, total_service)),
               !.flow_times = Append(@, Sample(i, total_service)),
               !.picks_completed = @ + 1]

\* Mutant: the service time recorded is the flow time, queueing included.
RecordCompletion_service_is_flow(st, i, total_service, flow_time) ==
    [st EXCEPT !.service_times = Append(@, Sample(i, flow_time)),
               !.flow_times = Append(@, Sample(i, flow_time)),
               !.picks_completed = @ + 1]

\* Mutant: the completion counter is not incremented.
RecordCompletion_uncounted(st, i, total_service, flow_time) ==
    [st EXCEPT !.service_times = Append(@, Sample(i, total_service)),
               !.flow_times = Append(@, Sample(i, flow_time))]

\* The service timeout fires: lines 451-462 / 537-548.
RecordCompletion(st, i, total_service, flow_time) ==
    [st EXCEPT !.service_times = Append(@, Sample(i, total_service)),
               !.flow_times = Append(@, Sample(i, flow_time)),
               !.picks_completed = @ + 1]

\* Leaving the with block releases the slot; the Release event is queued and
\* the freed slot is handed on when that event is processed.
PickFinish(i) ==
    /\ Runnable
    /\ Cur.kind = "pick" /\ Cur.proc = i
    /\ pick[i].pc = "service"
    /\ LET t == Cur.time IN
       /\ now' = t
       /\ stats' = RecordCompletion(stats, i, pick[i].total_service,
                                    t - pick[i].original_arrival_time)
       /\ hist' = [hist EXCEPT !.completed_by = Append(@, i),
                               !.done_time[i] = t]
       /\ pick' = [pick EXCEPT ![i] = [@ EXCEPT !.pc = "done"]]
       /\ users' = Release(users, i)
       /\ queue' = Schedule(Tail(queue), Event(t, NORMAL, "release", i))
    /\ UNCHANGED <<aux, calls, scenario, n_pickers, tasks, put_queue, ledger, gen, repl, run>>

\* The Release event is processed: its callback is _trigger_put.
ReleaseEvent ==
    /\ Runnable
    /\ Cur.kind = "release"
    /\ LET t == Cur.time
           r == TriggerPut(users, put_queue, n_pickers)
       IN /\ now' = t
          /\ users' = r.users
          /\ put_queue' = r.put_queue
          /\ queue' = ScheduleAll(Tail(queue), GrantEvents(r.granted, t))
          /\ hist' = [hist EXCEPT !.grant_order = @ \o r.granted,
                                  !.grant_time = [i \in PickIds |->
                                      IF InSeq(r.granted, i) THEN t ELSE @[i]]]
    /\ UNCHANGED <<aux, calls, scenario, n_pickers, tasks, ledger, stats, pick, gen, repl, run>>

\* ---------------------------------------------------- replenishment_process
\* Mutant: only the first SKU of the ledger is ever looked at.
NextToReplenish_first_only(l, k) ==
    IF k = 1 /\ needs_replenishment(l, SkuOrder[1]) THEN 1 ELSE 0

\* Mutant: every SKU is replenished at every scan, low or not.
NextToReplenish_all(l, k) == IF k <= Len(SkuOrder) THEN k ELSE 0

\* Index of the first SKU from position k on that needs replenishment, or 0.
NextToReplenish(l, k) ==
    LET c == {j \in k..Len(SkuOrder) : needs_replenishment(l, SkuOrder[j])}
    IN IF c = {} THEN 0 ELSE CHOOSE j \in c : \A j2 \in c : j <= j2

\* Mutant: the replenishment process requests a picker slot for its scan.
ReplenishStep_with_picker ==
    /\ Runnable
    /\ Cur.kind = "repl"
    /\ LET t == Cur.time
           r == Request(users, put_queue, 0, n_pickers)
       IN /\ now' = t
          /\ repl' = [pc |-> "scan", k |-> 1]
          /\ users' = r.users
          /\ put_queue' = r.put_queue
          /\ queue' = Schedule(Tail(queue), Event(t + check_interval, NORMAL, "repl", 0))
    /\ UNCHANGED <<aux, calls, scenario, n_pickers, tasks, ledger, stats, pick, gen, run, hist>>

\* The process starts with `yield env.timeout(check_interval)`; each time it
\* resumes it goes on with the scan of the SKUs up to the next replenishment
\* (replenish, then `yield env.timeout(replenish_time)`) or to the end of the
\* list (then `yield env.timeout(check_interval)`).
ReplenishStep ==
    /\ Runnable
    /\ Cur.kind = "repl"
    /\ LET t == Cur.time
           j == NextToReplenish(ledger, repl.k)
       IN /\ now' = t
          /\ IF repl.pc = "init"
             THEN /\ repl' = [pc |-> "scan", k |-> 1]
                  /\ queue' = Schedule(Tail(queue), Event(t + check_interval, NORMAL, "repl", 0))
                  /\ UNCHANGED <<ledger, hist, calls>>
             ELSE IF j = 0
             THEN /\ repl' = [pc |-> "scan", k |-> 1]
                  /\ queue' = Schedule(Tail(queue), Event(t + check_interval, NORMAL, "repl", 0))
                  /\ UNCHANGED <<ledger, hist, calls>>
             ELSE \E replenish_time \in Draws(DrawKey("replenish", 0), ReplenishTimes) :
                  /\ repl' = [pc |-> "scan", k |-> j + 1]
                  /\ calls' = Drawn(calls, DrawKey("replenish", 0), replenish_time)
                  /\ ledger' = replenish(ledger, SkuOrder[j])
                  /\ hist' = [hist EXCEPT
                       !.level_at[SkuOrder[j]] = ledger.max_pieces[SkuOrder[j]],
                       !.granted_since[SkuOrder[j]] = 0,
                       !.replenished_at = Append(@, t),
                       !.added[SkuOrder[j]] =
                           @ + (ledger.max_pieces[SkuOrder[j]]
                                - ledger.inventory[SkuOrder[j]]),
                       !.restocked_from = @ \cup {<<SkuOrder[j], ledger.inventory[SkuOrder[j]]>>},
                       !.outage[SkuOrder[j]] =
                           IF hist.empty_since[SkuOrder[j]] >= 0
                           THEN t - hist.empty_since[SkuOrder[j]] ELSE @,
                       !.outage_allow[SkuOrder[j]] =
                           IF hist.empty_since[SkuOrder[j]] >= 0
                           THEN check_interval + hist.slack[SkuOrder[j]] + hist.charged
                           ELSE @,
                       !.empty_since[SkuOrder[j]] = -1,
                       !.charged = @ + replenish_time,
                       !.busy_until = t + replenish_time]
                  /\ queue' = Schedule(Tail(queue), Event(t + replenish_time, NORMAL, "repl", 0))
    /\ UNCHANGED <<aux, scenario, n_pickers, tasks, users, put_queue, stats, pick, gen, run>>

\* ------------------------------------------------------------------ monitor
MonitorStep ==
    /\ Runnable
    /\ Cur.kind = "mon"
    /\ LET t == Cur.time IN
       /\ now' = t
       /\ stats' = [stats EXCEPT !.queue_lengths = Append(@, Len(put_queue)),
                                 !.utilization_samples = Append(@, <<Len(users), n_pickers>>)]
       /\ queue' = Schedule(Tail(queue), Event(t + monitor_interval, NORMAL, "mon", 0))
    /\ UNCHANGED <<aux, calls, scenario, n_pickers, tasks, users, put_queue, ledger, pick, gen, repl, run, hist>>

\* ----------------------------------------------------------- run_simulation
\* InventoryManager.get_summary: StockoutEvents is the sum of the per-SKU
\* stockout counters.
StockoutEvents(l) ==
    SumSeq([k \in 1..Len(SkuOrder) |-> l.stockouts[SkuOrder[k]]])

Replenishments(l) ==
    SumSeq([k \in 1..Len(SkuOrder) |-> l.replenishments[SkuOrder[k]]])

Values(samples) == [k \in 1..Len(samples) |-> samples[k].value]

\* InventoryManager.get_summary, line 118: the fill rate is the share of the
\* check_and_pick calls that returned success, or 100 when there was no call.
fill_rate(l) ==
    IF l.total_picks > 0 THEN <<100 * l.successful_picks, l.total_picks>>
    ELSE <<100, 1>>

\* A quotient a / b is kept as the pair <<a, b>>.
\* Mutant: the busy time is divided by the run's duration alone.
utilization_per_run(total_service_time, n) == <<100 * total_service_time, SIM_DURATION>>

\* utilization_calculated (line 668).
utilization_calculated(total_service_time, n) ==
    <<100 * total_service_time, n * SIM_DURATION>>

\* The dictionary run_simulation returns (lines 649-728), for the entries the
\* properties read.
Returned(st, l, n) ==
    LET total_service_time == SumSeq(Values(st.service_times)) IN
    [Pickers |-> n,
     Picks |-> st.picks_completed,
     PicksAttempted |-> st.picks_attempted,
     Stockouts |-> st.stockouts,
     AvgService |-> IF st.service_times # <<>>
                    THEN <<total_service_time, Len(st.service_times)>>
                    ELSE <<1, 1>>,
     TotalServiceTime |-> total_service_time,
     Utilization |-> utilization_calculated(total_service_time, n),
     FillRate |-> IF IsNone(l) THEN <<100, 1>> ELSE fill_rate(l),
     StockoutEvents |-> IF IsNone(l) THEN 0 ELSE StockoutEvents(l),
     Replenishments |-> IF IsNone(l) THEN 0 ELSE Replenishments(l),
     StockWaitCount |-> Len(st.stock_wait_times),
     ServiceTimes |-> Values(st.service_times)]

\* env.run(until=SIM_DURATION) returns: the clock stands at SIM_DURATION, and
\* run_simulation returns its dictionary.
RunEnd ==
    /\ run = "running"
    /\ ~Runnable
    /\ run' = "ended"
    /\ now' = SIM_DURATION
    /\ calls' = [calls EXCEPT !.result = Returned(stats, ledger, n_pickers)]
    /\ UNCHANGED <<aux, scenario, n_pickers, tasks, queue, users, put_queue, ledger,
                   stats, pick, gen, repl, hist>>

\* Mutant: the replenishment process is created in both scenarios.
InitQueue_with_replenishment(sc) ==
    <<Event(0, URGENT, "repl", 0), Event(0, URGENT, "gen", 0), Event(0, URGENT, "mon", 0)>>

\* run_simulation, lines 632-646: fresh statistics, environment, pool and (in
\* the 'after' scenario) ledger; the processes are created in the order
\* replenishment_process, order_generator, monitor.
InitQueue(sc) ==
    (IF sc = "after" THEN <<Event(0, URGENT, "repl", 0)>> ELSE <<>>)
    \o <<Event(0, URGENT, "gen", 0), Event(0, URGENT, "mon", 0)>>

Init ==
    /\ scenario \in {"before", "after"}
    /\ n_pickers \in PickerCounts
    /\ tasks \in TaskLists
    /\ now = 0
    /\ queue = InitQueue(scenario)
    /\ users = <<>>
    /\ put_queue = <<>>
    /\ ledger = (IF scenario = "after" THEN NewLedger ELSE None)
    /\ stats = NewStatistics
    /\ pick = [i \in PickIds |-> NewPick]
    /\ gen = NewGen
    /\ repl = [pc |-> "init", k |-> 1]
    /\ run = "running"
    /\ hist = NewHist
    /\ calls = NewCalls
    /\ aux = None

Next ==
    \/ GenStep
    \/ \E i \in PickIds : PickBeforeStart(i)
    \/ \E i \in PickIds : PickStock(i)
    \/ \E i \in PickIds : PickGranted(i)
    \/ \E i \in PickIds : PickFinish(i)
    \/ ReleaseEvent
    \/ ReplenishStep
    \/ MonitorStep
    \/ RunEnd

Spec == Init /\ [][Next]_vars

\* run_simulation called with any pick_data.
WideInit ==
    /\ scenario \in {"before", "after"}
    /\ n_pickers \in PickerCounts
    /\ tasks \in WideTaskLists
    /\ now = 0
    /\ queue = InitQueue(scenario)
    /\ users = <<>>
    /\ put_queue = <<>>
    /\ ledger = (IF scenario = "after" THEN NewLedger ELSE None)
    /\ stats = NewStatistics
    /\ pick = [i \in PickIds |-> NewPick]
    /\ gen = NewGen
    /\ repl = [pc |-> "init", k |-> 1]
    /\ run = "running"
    /\ hist = NewHist
    /\ calls = NewCalls
    /\ aux = None

WideSpec == WideInit /\ [][Next]_vars

\* The optimized scenario alone: run_simulation(..., 'after', ...), the only
\* scenario with a ledger, a stock retry loop and a replenishment process.
\* env.run(until=SIM_DURATION) keeps calling env.step() while an event due
\* before SIM_DURATION is queued, and returns when none is: a step that can
\* be taken is taken.
AfterInit == Init /\ scenario = "after"

AfterNext ==
    \/ GenStep
    \/ \E i \in PickIds : PickStock(i)
    \/ \E i \in PickIds : PickGranted(i)
    \/ \E i \in PickIds : PickFinish(i)
    \/ ReleaseEvent
    \/ ReplenishStep
    \/ MonitorStep
    \/ RunEnd

FairSpec == AfterInit /\ [][AfterNext]_vars /\ WF_vars(AfterNext)

\* ------------------------------------------- run_simulation called again
\* The replication loop and the sensitivity loop call run_simulation for the
\* baseline and then for the optimized scenario, with the same pick data and
\* the same number of pickers, and go round again (lines 764-775, 848-857).
\* The tasks replayed in these calls arrive at the start of their day with
\* the largest quantity.
RepTask == [DayIndex : Days, DeliveryHour : {0}, DeliveryMinute : Minutes,
            PartNo : Parts, ScanQty : {MaxQty}]
RepTaskLists == {ts \in [1..MaxTasks -> RepTask] : IsSorted(ts) /\ CoversDays(ts)}

Other(sc) == IF sc = "before" THEN "after" ELSE "before"

\* What is kept of a call that has returned.
Ended == [scenario |-> scenario, n_pickers |-> n_pickers, tasks |-> tasks,
          tape |-> calls.tape, result |-> calls.result, stats |-> stats]

\* Mutant: the sequences of the Statistics object are shared by its instances.
NextRun_shared_statistics ==
    /\ run = "ended"
    /\ calls.n < MaxRuns
    /\ scenario' = Other(scenario)
    /\ stats' = [stats EXCEPT !.picks_completed = 0, !.picks_attempted = 0,
                              !.stockouts = 0]
    /\ now' = 0
    /\ queue' = InitQueue(scenario')
    /\ users' = <<>>
    /\ put_queue' = <<>>
    /\ ledger' = (IF scenario' = "after" THEN InventoryManager(sku_params) ELSE None)
    /\ pick' = [i \in PickIds |-> NewPick]
    /\ gen' = NewGen
    /\ repl' = [pc |-> "init", k |-> 1]
    /\ run' = "running"
    /\ hist' = NewHist
    /\ calls' = [n |-> calls.n + 1, tape |-> <<>>, result |-> None,
                 earlier |-> Append(calls.earlier, Ended)]
    /\ UNCHANGED <<aux, n_pickers, tasks>>

\* The next call of run_simulation, up to env.run (lines 630-646): a new
\* Statistics, the generator seeded again, a new Environment and Resource, a
\* new InventoryManager in the 'after' scenario, and the processes created.
NextRun ==
    /\ run = "ended"
    /\ calls.n < MaxRuns
    /\ scenario' = Other(scenario)
    /\ stats' = NewStatistics
    /\ now' = 0
    /\ queue' = InitQueue(scenario')
    /\ users' = <<>>
    /\ put_queue' = <<>>
    /\ ledger' = (IF scenario' = "after" THEN InventoryManager(sku_params) ELSE None)
    /\ pick' = [i \in PickIds |-> NewPick]
    /\ gen' = NewGen
    /\ repl' = [pc |-> "init", k |-> 1]
    /\ run' = "running"
    /\ hist' = NewHist
    /\ calls' = [n |-> calls.n + 1, tape |-> <<>>, result |-> None,
                 earlier |-> Append(calls.earlier, Ended)]
    /\ UNCHANGED <<aux, n_pickers, tasks>>

RepInit ==
    /\ scenario \in {"before", "after"}
    /\ n_pickers \in PickerCounts
    /\ tasks \in RepTaskLists
    /\ now = 0
    /\ queue = InitQueue(scenario)
    /\ users = <<>>
    /\ put_queue = <<>>
    /\ ledger = (IF scenario = "after" THEN NewLedger ELSE None)
    /\ stats = NewStatistics
    /\ pick = [i \in PickIds |-> NewPick]
    /\ gen = NewGen
    /\ repl = [pc |-> "init", k |-> 1]
    /\ run = "running"
    /\ hist = NewHist
    /\ calls = NewCalls
    /\ aux = None

RepNext == Next \/ NextRun

RepSpec == RepInit /\ [][RepNext]_vars

\* --------------------------------------- run_simulation on any SKU table
\* run_simulation(AFTER_FPA, pick_data, n_pickers, 'after', sku_params_df)
\* with a table whose reorder point of SKU B is anything from 1 to MaxReorder,
\* below, at or above its MaxPieces.
SkuConfigs ==
    {SkuParams(InitialPieces, MaxPieces, [ReorderPoint EXCEPT !["B"] = r]) :
        r \in 1..MaxReorder}

CfgInit ==
    /\ scenario \in {"before", "after"}
    /\ n_pickers \in PickerCounts
    /\ tasks \in RepTaskLists
    /\ now = 0
    /\ queue = InitQueue(scenario)
    /\ users = <<>>
    /\ put_queue = <<>>
    /\ ledger \in (IF scenario = "after"
                   THEN {InventoryManager(p) : p \in SkuConfigs}
                   ELSE {None})
    /\ stats = NewStatistics
    /\ pick = [i \in PickIds |-> NewPick]
    /\ gen = NewGen
    /\ repl = [pc |-> "init", k |-> 1]
    /\ run = "running"
    /\ hist = NewHist
    /\ calls = NewCalls
    /\ aux = None

CfgSpec == CfgInit /\ [][Next]_vars

\* env.run(until=SIM_DURATION) keeps calling env.step() while an event due
\* before SIM_DURATION is queued, and returns when none is: a step that can
\* be taken is taken.
FairCfgSpec == CfgSpec /\ WF_vars(Next)

\* ------------------------------------------------- the replication spans
\* The module level before any call of run_simulation: the variables of a
\* run hold nothing.
NoRun ==
    /\ n_pickers = 1
    /\ tasks = <<>>
    /\ now = 0
    /\ queue = <<>>
    /\ users = <<>>
    /\ put_queue = <<>>
    /\ ledger = None
    /\ stats = NewStatistics
    /\ pick = [i \in PickIds |-> NewPick]
    /\ gen = NewGen
    /\ repl = [pc |-> "init", k |-> 1]
    /\ run = "idle"
    /\ hist = NewHist
    /\ calls = [NewCalls EXCEPT !.n = 0]

RunVars == <<scenario, n_pickers, tasks, now, queue, users, put_queue, ledger,
             stats, pick, gen, repl, run, hist, calls>>

\* non_flood_days: the sorted distinct shipping days left after the filter.
ShippingDays == 1..MaxShippingDays
RECURSIVE SortedList(_)
SortedList(S) ==
    IF S = {} THEN <<>>
    ELSE LET m == CHOOSE x \in S : \A y \in S : x <= y
         IN <<m>> \o SortedList(S \ {m})

\* The while loop of create_7day_spans from position i on; a span has NUM_DAYS
\* days (the literal 7 of the source).
RECURSIVE SpansFrom(_, _, _, _)
SpansFrom(days_list, num_spans, spans, i) ==
    IF Len(spans) < num_spans /\ i + NUM_DAYS <= Len(days_list)
    THEN SpansFrom(days_list, num_spans,
                   Append(spans, SubSeq(days_list, i + 1, i + NUM_DAYS)),
                   i + NUM_DAYS)
    ELSE spans

create_7day_spans(days_list, num_spans) == SpansFrom(days_list, num_spans, <<>>, 0)

\* REPLICATION_SPANS = create_7day_spans(non_flood_days, NUM_REPLICATIONS).
CreateSpans ==
    /\ aux.pc = "spans"
    /\ aux' = [aux EXCEPT !.pc = "loop",
                          !.REPLICATION_SPANS =
                              create_7day_spans(aux.non_flood_days, NUM_REPLICATIONS)]
    /\ UNCHANGED RunVars

\* The head of the body of `for rep in range(NUM_REPLICATIONS)` (lines
\* 752-758): the days replication rep simulates.  rep % 0 raises
\* ZeroDivisionError.
SelectDays ==
    /\ aux.pc = "loop"
    /\ LET rep == aux.rep
           n == Len(aux.REPLICATION_SPANS)
       IN IF rep >= NUM_REPLICATIONS
          THEN aux' = [aux EXCEPT !.pc = "done"]
          ELSE IF rep < n
          THEN aux' = [aux EXCEPT !.rep = rep + 1,
                                  !.selected_days = Append(@, aux.REPLICATION_SPANS[rep + 1])]
          ELSE IF n = 0
          THEN aux' = [aux EXCEPT !.pc = "crashed"]
          ELSE aux' = [aux EXCEPT !.rep = rep + 1,
                                  !.selected_days =
                                      Append(@, aux.REPLICATION_SPANS[(rep % n) + 1])]
    /\ UNCHANGED RunVars

SpanInit ==
    /\ scenario = "before"
    /\ NoRun
    /\ aux \in {[pc |-> "spans", non_flood_days |-> SortedList(S),
                  REPLICATION_SPANS |-> <<>>, rep |-> 0, selected_days |-> <<>>] :
                 S \in SUBSET ShippingDays}

SpanNext == CreateSpans \/ SelectDays

SpanSpec == SpanInit /\ [][SpanNext]_vars

\* ------------------------------------------- the service time of a pick
\* np.ceil(qty / 10) for a positive whole quantity.
Ceil(a, b) == (a + b - 1) \div b

\* Mutant: the search time is drawn in both scenarios.
search_time_drawn(sc, drawn) == drawn

\* Line 436 (a draw) and line 519 (`search_time = 0`).
search_time(sc, drawn) == IF sc = "before" THEN drawn ELSE 0

\* Mutant: one box is handled whatever the quantity.
pick_time_one_box(check_pick_time, box_time, qty) == check_pick_time + box_time

\* Lines 445 and 524.
pick_time(check_pick_time, box_time, qty) ==
    check_pick_time + box_time * Ceil(qty, box_size)

\* Lines 447 and 526.
total_service(walk_time, search_t, pick_t, scan_time) ==
    walk_time + search_t + pick_t + scan_time

\* The values a pick draws: walk_time stands for 2 * walk_distance /
\* walk_speed of its two draws; the search draw is made in the baseline only.
ServiceDraws ==
    [walk_time : 1..MaxPart, search : 1..MaxPart, check_pick_time : 1..MaxPart,
     box_time : 1..MaxPart, scan_time : 1..MaxPart]

\* Quantities of 1 to MaxBoxes inner boxes, full and just begun.
BoxQtys == {1} \cup {b * box_size : b \in 1..(MaxBoxes - 1)}
               \cup {b * box_size + 1 : b \in 1..(MaxBoxes - 1)}

NewComponents ==
    [service_times |-> <<>>, walk_times |-> <<>>, search_times |-> <<>>,
     pick_times |-> <<>>, scan_times |-> <<>>]

\* pick_order_before_fpa (lines 423-457) and pick_order_after_fpa (lines
\* 508-543) of a pick that completes: the service time is computed from the
\* draws, and after the service timeout it is recorded with its components.
ServiceOfPick ==
    /\ aux.pc = "pick"
    /\ LET d == aux.drawn
           search == search_time(scenario, d.search)
           pick_t == pick_time(d.check_pick_time, d.box_time, aux.ScanQty)
           total == total_service(d.walk_time, search, pick_t, d.scan_time)
       IN aux' = [aux EXCEPT
                    !.pc = "recorded",
                    !.stats = [service_times |-> Append(@.service_times, total),
                               walk_times |-> Append(@.walk_times, d.walk_time),
                               search_times |-> Append(@.search_times, search),
                               pick_times |-> Append(@.pick_times, pick_t),
                               scan_times |-> Append(@.scan_times, d.scan_time)]]
    /\ UNCHANGED RunVars

SvcInit ==
    /\ scenario \in {"before", "after"}
    /\ NoRun
    /\ aux \in {[pc |-> "pick", ScanQty |-> q, drawn |-> d, stats |-> NewComponents] :
                 q \in BoxQtys, d \in ServiceDraws}

SvcNext == ServiceOfPick

SvcSpec == SvcInit /\ [][SvcNext]_vars

\* ------------------------------------- the InventoryManager on its own
\* An InventoryManager built from sku_params, and its methods called in any
\* order with any part number and quantity.  aux holds the last call and
\* what it returned.
LedgerQtys == 1..MaxLedgerQty

LedgerCall(n, op, part_no, qty, ok, amount) ==
    [n |-> n, op |-> op, part_no |-> part_no, qty |-> qty, ok |-> ok,
     amount |-> amount]

LedgerVars == <<scenario, n_pickers, tasks, now, queue, users, put_queue,
                stats, pick, gen, repl, run, hist, calls>>

CallCheckAndPick ==
    /\ aux.n < MaxCalls
    /\ \E part_no \in Parts, qty \in LedgerQtys :
          LET res == check_and_pick(ledger, part_no, qty) IN
          /\ ledger' = res.ledger
          /\ aux' = LedgerCall(aux.n + 1, "check_and_pick", part_no, qty,
                               res.success, res.picked)
    /\ UNCHANGED LedgerVars

CallNeedsReplenishment ==
    /\ aux.n < MaxCalls
    /\ \E part_no \in Parts :
          aux' = LedgerCall(aux.n + 1, "needs_replenishment", part_no, 0,
                            needs_replenishment(ledger, part_no), 0)
    /\ UNCHANGED <<ledger, LedgerVars>>

\* replenish returns the quantity it added, 0 for a part that is not in the
\* ledger.
CallReplenish ==
    /\ aux.n < MaxCalls
    /\ \E part_no \in Parts :
          /\ ledger' = replenish(ledger, part_no)
          /\ aux' = LedgerCall(aux.n + 1, "replenish", part_no, 0, TRUE,
                               IF part_no \in DOMAIN ledger.inventory
                               THEN ledger.max_pieces[part_no]
                                    - ledger.inventory[part_no]
                               ELSE 0)
    /\ UNCHANGED LedgerVars

LedgerInit ==
    /\ scenario = "after"
    /\ n_pickers = 1
    /\ tasks = <<>>
    /\ now = 0
    /\ queue = <<>>
    /\ users = <<>>
    /\ put_queue = <<>>
    /\ ledger = NewLedger
    /\ stats = NewStatistics
    /\ pick = [i \in PickIds |-> NewPick]
    /\ gen = NewGen
    /\ repl = [pc |-> "init", k |-> 1]
    /\ run = "idle"
    /\ hist = NewHist
    /\ calls = [NewCalls EXCEPT !.n = 0]
    /\ aux = LedgerCall(0, "__init__", "", 0, TRUE, 0)

LedgerNext == CallCheckAndPick \/ CallNeedsReplenishment \/ CallReplenish

LedgerSpec == LedgerInit /\ [][LedgerNext]_vars

TypeOK ==
    /\ scenario \in {"before", "after"}
    /\ n_pickers \in PickerCounts
    /\ now \in 0..SIM_DURATION
    /\ run \in {"idle", "running", "ended", "crashed"}
    /\ \A i \in PickIds : pick[i].pc \in {"unborn", "init", "retry", "req", "service", "done", "abandoned"}


\* ================================================================ properties
Started == {i \in PickIds : pick[i].pc \notin {"unborn", "init"}}
InRetry == {i \in PickIds : pick[i].pc = "retry"}
WaitingForSlot == {i \in PickIds : InSeq(put_queue, i)}
InService == {i \in PickIds : pick[i].pc = "service"}
Done == {i \in PickIds : pick[i].pc = "done"}
\* Picks whose process has started and has not reached its end.
Unfinished == {i \in PickIds : pick[i].pc \in {"retry", "req", "service", "abandoned"}}

Pos(s, x) == CHOOSE k \in 1..Len(s) : s[k] = x

\* C1: for every SKU of the ledger, in every reachable state (after any
\* interleaving of check_and_pick and replenish calls, partial fulfilment
\* included), 0 <= current quantity <= max quantity.
C1_QuantityInRange ==
    ~IsNone(ledger) =>
        \A s \in Skus : 0 <= ledger.inventory[s] /\ ledger.inventory[s] <= MaxPieces[s]

\* A SKU was emptied by a partial fulfilment, was replenished, and was picked
\* from again.
C1_Witness ==
    /\ hist.partial # {}
    /\ \E s \in Skus : /\ ledger.replenishments[s] > 0
                       /\ ledger.stockouts[s] > 0
                       /\ 0 < ledger.inventory[s]
                       /\ ledger.inventory[s] < MaxPieces[s]

\* The stock pass of pick i is about to run and will find a positive quantity
\* smaller than the requested one.
PartialCase(i) ==
    /\ Runnable
    /\ Cur.kind = "pick" /\ Cur.proc = i
    /\ scenario = "after"
    /\ pick[i].pc \in {"init", "retry"}
    /\ tasks[i].PartNo \in Skus
    /\ 0 < ledger.inventory[tasks[i].PartNo]
    /\ ledger.inventory[tasks[i].PartNo] < tasks[i].ScanQty

\* C2: in the optimized pick process, when the ledger holds a positive
\* quantity smaller than the requested one, the available amount is consumed,
\* a stockout is recorded, and the pick goes on to request a pool slot at the
\* same instant, without entering the stock retry wait.
C2_PartialProceeds ==
    [][\A i \in PickIds :
         PartialCase(i) =>
           /\ ledger'.inventory[tasks[i].PartNo] = 0
           /\ ledger'.stockouts[tasks[i].PartNo] = ledger.stockouts[tasks[i].PartNo] + 1
           /\ pick'[i].pc = "req"
           /\ i \in {hist'.req_order[k] : k \in 1..Len(hist'.req_order)}]_vars

\* C3 as stated: at the end of a replication of the optimized scenario,
\* picks_completed + abandoned = picks_attempted, abandoned being the number
\* of picks still in the stock retry loop.
C3_RetryOnlyAbandoned ==
    (run = "ended" /\ scenario = "after") =>
        stats.picks_completed + Cardinality(InRetry) = stats.picks_attempted

\* C3 amended: at the end of every replication, picks_completed + unfinished =
\* number of pick processes started, where unfinished counts the picks still
\* in the stock retry loop, still waiting for a picker slot or still in
\* service; in the optimized scenario the number started is picks_attempted.
C3_CompletedPlusUnfinished ==
    run = "ended" =>
        /\ stats.picks_completed + Cardinality(Unfinished) = Cardinality(Started)
        /\ scenario = "after" => stats.picks_attempted = Cardinality(Started)

\* A run of the optimized scenario ends with one pick completed, one in the
\* retry loop and one holding a slot.
C3_Witness ==
    /\ run = "ended" /\ scenario = "after"
    /\ stats.picks_completed > 0
    /\ InRetry # {}
    /\ InService # {}

\* C4: in every reachable state of every replication, in both scenarios,
\* picks_completed <= picks_attempted.
C4_CompletedLeqAttempted == stats.picks_completed <= stats.picks_attempted

\* What pick i has put into the Statistics accumulator.
NoTimingSample(i) ==
    /\ ~Contributed(stats.wait_times, i)
    /\ ~Contributed(stats.service_times, i)
    /\ ~Contributed(stats.flow_times, i)
NoCounterIncrement(i) ==
    /\ ~InSeq(hist.attempted_by, i)
    /\ ~InSeq(hist.stockout_by, i)
    /\ ~InSeq(hist.completed_by, i)
CountersAccounted ==
    /\ stats.picks_completed = Len(hist.completed_by)
    /\ stats.picks_attempted = Len(hist.attempted_by)
    /\ stats.stockouts = Len(hist.stockout_by)

\* C5 as stated: a pick still waiting for stock or for a pool slot when the
\* run reaches SIM_DURATION has contributed no completion and no entry of any
\* kind to the Statistics accumulator: no wait/service/flow sample and no
\* counter increment.
C5_NoEntryOfAnyKind ==
    run = "ended" =>
        \A i \in InRetry \cup WaitingForSlot :
            NoTimingSample(i) /\ NoCounterIncrement(i)

\* C5 amended: a pick still waiting for stock or for a pool slot when the run
\* reaches SIM_DURATION has contributed no completion and no wait, service or
\* flow sample; it has been counted in picks_attempted (optimized scenario),
\* and in stockouts if it met one.
C5_NoCompletionNoSample ==
    /\ CountersAccounted
    /\ run = "ended" =>
        \A i \in InRetry \cup WaitingForSlot :
            /\ NoTimingSample(i)
            /\ ~InSeq(hist.completed_by, i)
            /\ scenario = "after" => InSeq(hist.attempted_by, i)
            /\ i \in InRetry => InSeq(hist.stockout_by, i)

\* A run ends with one pick in the retry loop and another in the put queue.
C5_Witness ==
    /\ run = "ended"
    /\ InRetry # {}
    /\ WaitingForSlot # {}

\* C6: at the end of every run
\* len(wait_times) = len(service_times) = len(flow_times) = picks_completed.
C6_OneSampleSetPerCompletion ==
    run = "ended" =>
        /\ Len(stats.wait_times) = stats.picks_completed
        /\ Len(stats.service_times) = stats.picks_completed
        /\ Len(stats.flow_times) = stats.picks_completed

\* C7: at no instant does the number of picks holding a picker slot exceed
\* the pool capacity n_pickers.
C7_HoldersWithinCapacity == Len(users) <= n_pickers

\* The pool is full and a request is waiting.
C7_Witness == Len(users) = n_pickers /\ put_queue # <<>>

\* C8: FIFO fairness of the picker pool: if pick a requested a slot before
\* pick b and both had to wait, a is granted a slot no later than b.
C8_FifoGrant ==
    \A a \in hist.waited, b \in hist.waited :
        (Pos(hist.req_order, a) < Pos(hist.req_order, b) /\ InSeq(hist.grant_order, b)) =>
            /\ InSeq(hist.grant_order, a)
            /\ Pos(hist.grant_order, a) < Pos(hist.grant_order, b)

\* Two picks were queued together and both have been granted a slot.
C8_Witness ==
    \E a \in hist.waited, b \in hist.waited :
        /\ a # b
        /\ InSeq(hist.grant_order, a) /\ InSeq(hist.grant_order, b)
        /\ hist.max_queue >= 2

\* C9: for any SKU the total quantity granted by successful check_and_pick
\* calls since its last replenishment (or the start of the run) never exceeds
\* the quantity it held at the start of that interval.
C9_NoUnitGrantedTwice ==
    \A s \in Skus : hist.granted_since[s] <= hist.level_at[s]

\* Two or more successful calls have granted every unit a SKU held.
C9_Witness ==
    \E s \in Skus : /\ hist.level_at[s] > 0
                    /\ hist.granted_since[s] = hist.level_at[s]
                    /\ ledger.successful_picks >= 2

\* C10: a pick of a SKU whose initial quantity is 0 (reorder point 10, max 50)
\* does not complete before the first replenishment check, 30 minutes.
C10_NoCompletionBeforeFirstCheck ==
    scenario = "after" =>
        \A i \in Done :
            (tasks[i].PartNo \in Skus /\ InitialPieces[tasks[i].PartNo] = 0) =>
                hist.done_time[i] >= check_interval

\* A pick of the initially empty SKU met a stockout, and completed after the
\* replenishment at minute 30.
C10_Witness ==
    /\ scenario = "after"
    /\ \E i \in Done : /\ tasks[i].PartNo = "A"
                       /\ InitialPieces["A"] = 0 /\ ReorderPoint["A"] = 10
                       /\ MaxPieces["A"] = 50
                       /\ InSeq(hist.stockout_by, i)
                       /\ hist.replenished_at # <<>>
                       /\ hist.replenished_at[1] = check_interval

\* C11: a pick that finds no stock registers one stockout event however long
\* it retries: at the end of a run the ledger's stockout events, and its
\* failed_picks, equal the number of picks that met a stockout
\* (stats.stockouts).
C11_OneStockoutEventPerPick ==
    (run = "ended" /\ scenario = "after") =>
        /\ StockoutEvents(ledger) = stats.stockouts
        /\ ledger.failed_picks = stats.stockouts

\* Pick i is about to call check_and_pick on a SKU that holds at least the
\* requested quantity.
SufficientCall(i) ==
    /\ Runnable
    /\ Cur.kind = "pick" /\ Cur.proc = i
    /\ scenario = "after"
    /\ pick[i].pc \in {"init", "retry"}
    /\ tasks[i].PartNo \in Skus
    /\ ledger.inventory[tasks[i].PartNo] >= tasks[i].ScanQty

\* The ledger effect of a call with sufficient stock: the SKU is decremented
\* by the requested quantity, every other SKU is unchanged, no stockout is
\* recorded, and the pick requests its slot at the instant of the call.
SufficientEffect(i) ==
    /\ ledger'.inventory[tasks[i].PartNo] =
           ledger.inventory[tasks[i].PartNo] - tasks[i].ScanQty
    /\ \A s \in Skus \ {tasks[i].PartNo} : ledger'.inventory[s] = ledger.inventory[s]
    /\ ledger'.stockouts = ledger.stockouts
    /\ ledger'.stockout_qty = ledger.stockout_qty
    /\ ledger'.failed_picks = ledger.failed_picks
    /\ stats'.stockouts = stats.stockouts
    /\ pick'[i].pc = "req"
    /\ pick'[i].arrival_time = Cur.time
    /\ now' = Cur.time
    /\ hist'.req_order = Append(hist.req_order, i)

\* C12 as stated: whenever the ledger quantity of the requested SKU is >= the
\* requested quantity, check_and_pick decrements that SKU by exactly the
\* requested quantity, leaves every other SKU unchanged, records no stockout,
\* the pick proceeds at the same instant, and no stock wait is recorded.
C12_SufficientNoStockWait ==
    [][\A i \in PickIds :
          (SufficientCall(i) /\ queue' # queue) =>
              /\ SufficientEffect(i)
              /\ stats'.stock_wait_times = stats.stock_wait_times]_vars

\* C12 amended: as above, but no stock wait is recorded only when the call is
\* the pick's first; when the pick was in the retry loop, the time since its
\* arrival is recorded as its stock wait.
C12_SufficientProceeds ==
    [][\A i \in PickIds :
          (SufficientCall(i) /\ queue' # queue) =>
              /\ SufficientEffect(i)
              /\ pick[i].pc = "init" =>
                     stats'.stock_wait_times = stats.stock_wait_times
              /\ pick[i].pc = "retry" =>
                     stats'.stock_wait_times =
                         Append(stats.stock_wait_times,
                                Cur.time - pick[i].original_arrival_time)]_vars

\* One pick found its SKU sufficient on arrival and requested a slot at that
\* instant; another found it sufficient on a later poll.
C12_Witness ==
    /\ scenario = "after"
    /\ \E i \in PickIds, j \in PickIds :
          /\ tasks[i].PartNo \in Skus /\ tasks[j].PartNo \in Skus
          /\ InSeq(hist.req_order, i) /\ InSeq(hist.req_order, j)
          /\ pick[i].arrival_time = pick[i].original_arrival_time
          /\ pick[j].arrival_time > pick[j].original_arrival_time
          /\ Len(stats.stock_wait_times) = 1

\* Every pick line asks for at most max_quantity of its SKU.
QtyWithinMax ==
    \A i \in PickIds :
        tasks[i].PartNo \in Skus => tasks[i].ScanQty <= MaxPieces[tasks[i].PartNo]

\* Pick i is still in the stock retry loop when env.run has returned, and
\* has contributed no completion.
LeftInRetry(i) ==
    /\ run = "ended"
    /\ pick[i].pc = "retry"
    /\ ~InSeq(hist.completed_by, i)
    /\ NoTimingSample(i)
    /\ stats.picks_completed = Len(hist.completed_by)

\* Pick i, which met a stockout, has obtained its stock after a replenishment
\* of its SKU and has requested a pool slot.
ObtainedStock(i) == InSeq(hist.req_order, i) /\ i \in hist.after_restock

\* C13: when every pick requests at most max_quantity of its SKU, a pick that
\* enters the retry loop eventually obtains its stock, after a replenishment
\* of its SKU, and goes on to request a pool slot, unless the run reaches
\* SIM_DURATION first, in which case it is left in the loop and is not counted
\* as a completion.  Stated for all picks at once: whenever some pick is in
\* the retry loop, a moment follows at which every pick that has entered the
\* loop has obtained its stock or is left in the loop by the end of the run.
C13_RetryObtainsStock ==
    (QtyWithinMax /\ InRetry # {}) ~>
        \A i \in PickIds :
            InSeq(hist.stockout_by, i) => (ObtainedStock(i) \/ LeftInRetry(i))

\* One pick left the retry loop after a replenishment and requested a slot;
\* another is left in the loop at the end of the run.
C13_Witness ==
    /\ QtyWithinMax
    /\ \E i \in PickIds, j \in PickIds :
          /\ InSeq(hist.stockout_by, i) /\ ObtainedStock(i)
          /\ InSeq(hist.stockout_by, j) /\ LeftInRetry(j)

\* C14: each replenishment of a SKU sets its quantity to exactly max_quantity
\* and, max_quantity being above the reorder point, leaves the SKU Stocked
\* (quantity > reorder point), whether it was Low or Empty before.
C14_ReplenishToMax ==
    [][\A s \in Skus :
          (/\ ~IsNone(ledger)
           /\ ledger'.replenishments[s] # ledger.replenishments[s]
           /\ MaxPieces[s] > ReorderPoint[s]) =>
              /\ ledger.inventory[s] <= ReorderPoint[s]
              /\ ledger'.replenishments[s] = ledger.replenishments[s] + 1
              /\ ledger'.inventory[s] = MaxPieces[s]
              /\ ledger'.inventory[s] > ReorderPoint[s]
              /\ ~needs_replenishment(ledger', s)]_vars

\* An Empty SKU and a Low one (quantity 1, reorder point 1) have both been
\* replenished.
C14_Witness ==
    /\ <<"A", 0>> \in hist.restocked_from
    /\ <<"B", 1>> \in hist.restocked_from
    /\ ledger.replenishments["A"] = 1 /\ ledger.replenishments["B"] = 1
    /\ ledger.inventory["B"] = MaxPieces["B"]

\* C15 as stated: a SKU that becomes Empty is restocked to max no later than
\* one check interval (30 minutes) after it became empty, provided the run
\* lasts that long.
C15_RestockWithinCheckInterval ==
    scenario = "after" =>
        \A s \in Skus :
            /\ hist.empty_since[s] >= 0 =>
                   now - hist.empty_since[s] <= check_interval
            /\ hist.outage[s] <= check_interval

\* C15 amended: the SKU is restocked no later than one check interval plus
\* the replenishment time the process charges between the moment the SKU
\* became empty and its restock (the rest of a replenish_time timeout then in
\* progress, and the timeouts of the restocks made since).
C15_RestockWithinIntervalPlusCharged ==
    scenario = "after" =>
        \A s \in Skus :
            /\ hist.empty_since[s] >= 0 =>
                   now - hist.empty_since[s] <=
                       check_interval + hist.slack[s] + hist.charged
            /\ hist.outage[s] <= hist.outage_allow[s]

\* SKU B became empty at minute 0 and was restocked after the replenishment
\* of SKU A had been charged: later than one check interval.
C15_Witness ==
    /\ scenario = "after"
    /\ hist.outage["B"] > check_interval
    /\ hist.outage["B"] = hist.outage_allow["B"]
    /\ ledger.inventory["B"] = MaxPieces["B"]

\* The events of the queue that belong to the other processes.
OthersEvents(q) == SelectSeq(q, LAMBDA e : e.kind # "repl")
ReplEvents(q) == SelectSeq(q, LAMBDA e : e.kind = "repl")

\* C16: no step of replenishment_process acquires, holds or releases a picker
\* slot: it leaves the pool's holders and wait queue unchanged, and its time
\* cost delays only its own next scan: the pick processes and the events
\* queued for the other processes are untouched, and its own next event is
\* due later.
C16_ReplenishmentLeavesPool ==
    [][(Runnable /\ Cur.kind = "repl" /\ queue' # queue) =>
          /\ users' = users
          /\ put_queue' = put_queue
          /\ ~InSeq(users', 0) /\ ~InSeq(put_queue', 0)
          /\ pick' = pick
          /\ gen' = gen
          /\ OthersEvents(queue') = OthersEvents(queue)
          /\ Len(ReplEvents(queue')) = 1
          /\ ReplEvents(queue')[1].time > Cur.time]_vars

\* A SKU has been restocked at the current instant while one pick holds the
\* only slot and another waits for it.
C16_Witness ==
    /\ scenario = "after"
    /\ \E k \in 1..Len(hist.replenished_at) : hist.replenished_at[k] = now
    /\ users # <<>> /\ put_queue # <<>>
    /\ Len(users) = n_pickers

\* The value of the entry pick i appended to a list of samples.
ValueOf(samples, i) ==
    samples[CHOOSE k \in 1..Len(samples) : samples[k].pick = i].value

\* C17: for every completed pick the recorded wait time is the delay between
\* its slot request and the slot grant (the stock wait before the request is
\* not in it), and the recorded flow time is the time elapsed since the task
\* arrived: flow_time = stock wait + queue wait + service time, the stock
\* wait being 0 in the baseline scenario.
C17_WaitAndFlowTimes ==
    \A i \in Done :
        LET stock_wait == hist.req_time[i] - hist.start_time[i]
            queue_wait == hist.grant_time[i] - hist.req_time[i]
        IN /\ Contributed(stats.wait_times, i)
           /\ Contributed(stats.flow_times, i)
           /\ Contributed(stats.service_times, i)
           /\ ValueOf(stats.wait_times, i) = queue_wait
           /\ ValueOf(stats.flow_times, i) = hist.done_time[i] - hist.start_time[i]
           /\ ValueOf(stats.flow_times, i) =
                  stock_wait + queue_wait + ValueOf(stats.service_times, i)
           /\ scenario = "before" => stock_wait = 0

\* One completed pick waited for stock, another completed pick waited for a
\* slot.
C17_Witness ==
    \E i \in Done, j \in Done :
        /\ hist.req_time[i] > hist.start_time[i]
        /\ ValueOf(stats.wait_times, i) = 0
        /\ hist.grant_time[j] > hist.req_time[j]
        /\ ValueOf(stats.flow_times, j) > ValueOf(stats.service_times, j)

\* Number of slots pick i holds.
SlotsHeld(i) == Len(SelectSeq(users, LAMBDA x : x = i))

\* C18: every pick that is granted a slot holds exactly one slot, for exactly
\* its computed service duration, and then releases it; a pick holds no slot
\* while it waits for stock and none after it has completed.  A pick still in
\* service when the run ends has not yet held its slot for the full duration.
C18_SlotHeldForService ==
    \A i \in PickIds :
        /\ SlotsHeld(i) <= 1
        /\ pick[i].pc \in {"unborn", "init", "retry", "abandoned"} =>
               /\ SlotsHeld(i) = 0
               /\ ~InSeq(put_queue, i)
               /\ hist.grant_time[i] = -1
        /\ SlotsHeld(i) = 1 =>
               /\ pick[i].pc \in {"req", "service"}
               /\ hist.grant_time[i] >= hist.req_time[i]
               /\ hist.req_time[i] >= 0
        /\ pick[i].pc = "service" =>
               /\ SlotsHeld(i) = 1
               /\ now <= hist.grant_time[i] + pick[i].total_service
        /\ pick[i].pc = "done" =>
               /\ SlotsHeld(i) = 0
               /\ ~InSeq(put_queue, i)
               /\ hist.done_time[i] = hist.grant_time[i] + pick[i].total_service

\* One pick has completed and released the slot it held for the longest
\* service time, a second holds a slot, a third waits for stock with none.
C18_Witness ==
    \E i \in Done, j \in InService, k \in InRetry :
        /\ SlotsHeld(i) = 0 /\ SlotsHeld(j) = 1 /\ SlotsHeld(k) = 0
        /\ pick[i].total_service = MaxService
        /\ hist.done_time[i] - hist.grant_time[i] = MaxService

\* The time-of-day offset of a row, kept inside its day: the last minute of a
\* day of DAY_DURATION minutes is DAY_DURATION - 1.
ClippedOffset(row) ==
    Min(row.DeliveryHour * 60 + row.DeliveryMinute, DAY_DURATION - 1)

\* (index of its day) x day_duration + (its clipped time-of-day offset).
ArrivalOf(i) == tasks[i].DayIndex * DAY_DURATION + ClippedOffset(tasks[i])

BeyondRows == {k \in 1..Len(tasks) : ArrivalOf(k) >= SIM_DURATION}

\* C20: order_generator never spawns a pick process whose computed arrival
\* time is at or beyond SIM_DURATION: at the first row whose computed arrival
\* time is, it stops without raising an error, every row before it has been
\* spawned and no row from it on is.
C20_StopsAtRunDuration ==
    /\ \A i \in PickIds : pick[i].pc # "unborn" => ArrivalOf(i) < SIM_DURATION
    /\ (gen.pc = "done" /\ gen.i <= Len(tasks)) =>
           /\ gen.arrival >= SIM_DURATION
           /\ gen.arrival = ArrivalOf(gen.i)
           /\ \A k \in BeyondRows : gen.i <= k
           /\ \A k \in 1..(gen.i - 1) : pick[k].pc # "unborn"
           /\ \A k \in gen.i..Len(tasks) : pick[k].pc = "unborn"
           /\ run # "crashed"
    /\ (run = "ended" /\ BeyondRows # {}) =>
           /\ gen.pc = "done"
           /\ gen.i \in BeyondRows

\* The run is over: the generator stopped at the third row, whose arrival time
\* is SIM_DURATION or later, after spawning the two rows before it.
C20_Witness ==
    /\ run = "ended"
    /\ gen.pc = "done" /\ gen.i = 3
    /\ gen.arrival >= SIM_DURATION
    /\ BeyondRows = {3}
    /\ hist.start_time[1] >= 0 /\ hist.start_time[2] > hist.start_time[1]
    /\ pick[3].pc = "unborn"

\* Time t lies in the window of day index d.
InWindow(t, d) == d * DAY_DURATION <= t /\ t < (d + 1) * DAY_DURATION

\* C21: days are concatenated with zero gap and no overlap: the window of day
\* index d starts exactly at d x DAY_DURATION, and every task of day d arrives
\* inside [d x DAY_DURATION, (d+1) x DAY_DURATION), never in the window of the
\* next day.  This is required of the arrival time the generator computes for
\* a row and of the time at which the row's pick process starts.
C21_DaysBackToBack ==
    /\ \A d \in DOMAIN gen.day_start_times :
           gen.day_start_times[d] = d * DAY_DURATION
    /\ \A i \in PickIds :
           hist.start_time[i] >= 0 => InWindow(hist.start_time[i], tasks[i].DayIndex)
    /\ (gen.pc \in {"wait", "done"} /\ gen.i <= Len(tasks)) =>
           InWindow(gen.arrival, tasks[gen.i].DayIndex)
    /\ (gen.pc = "done" /\ gen.i > Len(tasks)) =>
           DOMAIN gen.day_start_times = Days

\* A task of day 0 whose time of day is past the end of the day arrived in the
\* last minute of day 0, and a task of day 1 arrived in the first minute of
\* day 1, the minute after.
C21_Witness ==
    \E i \in PickIds, j \in PickIds :
        /\ tasks[i].DayIndex = 0
        /\ tasks[i].DeliveryHour * 60 + tasks[i].DeliveryMinute >= DAY_DURATION
        /\ hist.start_time[i] = DAY_DURATION - 1
        /\ tasks[j].DayIndex = 1
        /\ hist.start_time[j] = DAY_DURATION
        /\ gen.day_start_times[1] = DAY_DURATION

Range(s) == {s[k] : k \in 1..Len(s)}

\* C22: the replications run over non-overlapping spans: for any two distinct
\* replication indices the sets of shipment days they simulate are disjoint,
\* for every number of available days.
C22_ReplicationsDisjoint ==
    \A r1, r2 \in 1..Len(aux.selected_days) :
        r1 # r2 => Range(aux.selected_days[r1]) \cap Range(aux.selected_days[r2]) = {}

\* C23: every call of run_simulation starts from fresh state: an empty picker
\* pool, a new Statistics accumulator with all counters 0 and all sequences
\* empty, and (optimized scenario) a ledger whose quantities equal the
\* supplied initial quantities; nothing mutated by an earlier replication is
\* visible in a later one: the call starts in the state a first call starts in.
C23_FreshState ==
    [][calls'.n # calls.n =>
          /\ users' = <<>> /\ put_queue' = <<>>
          /\ stats' = NewStatistics
          /\ scenario' = "after" =>
                 /\ \A s \in Skus : ledger'.inventory[s] = sku_params[s].InitialPieces
                 /\ ledger' = InventoryManager(sku_params)
          /\ scenario' = "before" => IsNone(ledger')
          /\ now' = 0
          /\ queue' = InitQueue(scenario')
          /\ pick' = [i \in PickIds |-> NewPick]
          /\ gen' = NewGen
          /\ repl' = [pc |-> "init", k |-> 1]
          /\ run' = "running"
          /\ calls'.tape = <<>>]_vars

\* The third call, of the optimized scenario, is about to start; the first
\* call completed picks, met stockouts and replenished, the second completed
\* picks.
C23_Witness ==
    /\ calls.n = 3 /\ scenario = "after"
    /\ run = "running" /\ now = 0 /\ queue = InitQueue("after")
    /\ stats = NewStatistics /\ users = <<>>
    /\ ledger.inventory = InitialPieces
    /\ calls.earlier[1].result.Picks > 0
    /\ calls.earlier[1].result.Replenishments > 0
    /\ calls.earlier[1].result.StockoutEvents > 0
    /\ calls.earlier[2].result.Picks > 0

\* C24: determinism: two runs of run_simulation with the same seed, the same
\* task sequence, the same scenario and the same configuration produce
\* identical statistics (same counters and same wait/service/flow sequences),
\* independently of any run executed in between.
C24_Deterministic ==
    run = "ended" =>
        \A e \in 1..Len(calls.earlier) :
            (/\ calls.earlier[e].scenario = scenario
             /\ calls.earlier[e].n_pickers = n_pickers
             /\ calls.earlier[e].tasks = tasks) =>
                /\ stats = calls.earlier[e].stats
                /\ calls.result = calls.earlier[e].result

\* The third call has returned what the first returned, after picks that
\* completed, a stockout and a replenishment; the call in between, of the
\* other scenario, returned something else.
C24_Witness ==
    /\ calls.n = 3 /\ run = "ended" /\ scenario = "after"
    /\ stats = calls.earlier[1].stats
    /\ stats.picks_completed >= 2
    /\ stats.stockouts > 0
    /\ calls.result.Replenishments > 0
    /\ Len(calls.tape) >= 3
    /\ calls.earlier[2].stats.service_times # stats.service_times

\* C25: a configuration in which some SKU has reorder_point >= max_quantity
\* is a fatal configuration error: it is rejected before the replication
\* starts, so no simulation event is ever processed with such a ledger.
BadConfig(l) ==
    ~IsNone(l) /\ \E s \in Skus : l.reorder_point[s] >= l.max_pieces[s]

C25_BadConfigRejected ==
    BadConfig(ledger) =>
        /\ now = 0
        /\ queue = InitQueue(scenario)
        /\ stats = NewStatistics
        /\ \A i \in PickIds : pick[i].pc = "unborn"

\* Quotients kept as pairs are equal when their cross products are.
SameQuotient(p, q) == p[1] * q[2] = q[1] * p[2]

\* SumOver(S, f): the sum of f[i] over the picks i of S.
RECURSIVE SumOver(_, _)
SumOver(S, f) ==
    IF S = {} THEN 0
    ELSE LET i == CHOOSE x \in S : TRUE IN f[i] + SumOver(S \ {i}, f)

\* C26: the utilization reported by run_simulation equals 100 x (sum of the
\* service times of completed picks) / (n_pickers x SIM_DURATION), which
\* equals 100 x (picks_completed x mean service time) / (capacity x duration).
C26_Utilization ==
    run = "ended" =>
        LET res == calls.result
            busy == SumOver(Done, [i \in PickIds |-> pick[i].total_service])
        IN /\ SameQuotient(res.Utilization, <<100 * busy, n_pickers * SIM_DURATION>>)
           /\ SameQuotient(res.Utilization,
                           <<100 * res.Picks * res.AvgService[1],
                             res.AvgService[2] * n_pickers * SIM_DURATION>>)

\* A run of two pickers has returned; two picks of different service times
\* completed and a third was in service when the run ended.
C26_Witness ==
    /\ run = "ended" /\ n_pickers = 2
    /\ \E i, j \in Done : pick[i].total_service # pick[j].total_service
    /\ InService # {}
    /\ calls.result.Utilization[1] > 0

\* C27: in the baseline ('before') scenario no inventory check is performed:
\* no ledger is created, no replenishment process runs, no pick ever waits
\* for stock, and the stockout and replenishment counts stay 0 for the whole
\* run.
C27_BaselineNoInventory ==
    scenario = "before" =>
        /\ IsNone(ledger)
        /\ repl.pc = "init"
        /\ \A k \in 1..Len(queue) : queue[k].kind # "repl"
        /\ hist.replenished_at = <<>>
        /\ InRetry = {}
        /\ \A i \in PickIds :
              /\ ~pick[i].had_stockout
              /\ hist.start_time[i] >= 0 => hist.req_time[i] = hist.start_time[i]
        /\ stats.stockouts = 0
        /\ stats.stock_wait_times = <<>>
        /\ run = "ended" =>
              /\ calls.result.Stockouts = 0
              /\ calls.result.StockoutEvents = 0
              /\ calls.result.Replenishments = 0
              /\ calls.result.StockWaitCount = 0

\* A baseline run has ended in which a pick of SKU A, of which the SKU table
\* holds no piece, completed before the first replenishment scan was due.
C27_Witness ==
    /\ scenario = "before" /\ run = "ended"
    /\ \E i \in Done : /\ tasks[i].PartNo = "A"
                        /\ InitialPieces["A"] < tasks[i].ScanQty
                        /\ hist.done_time[i] < check_interval

\* C28: the stock retry loop is bounded by the run's end time: every run
\* reaches SIM_DURATION and terminates, for any task list and any ledger
\* contents, because every retry, replenishment cycle and monitor cycle
\* advances simulated time by a positive amount (no process can loop forever
\* at one instant).
CycleAdvances ==
    /\ \A i \in PickIds :
          (Cur.kind = "pick" /\ Cur.proc = i /\ pick'[i].pc = "retry") =>
              \A k \in 1..Len(queue') :
                  (queue'[k].kind = "pick" /\ queue'[k].proc = i) =>
                      queue'[k].time > Cur.time
    /\ \A kind \in {"repl", "mon"} :
          Cur.kind = kind =>
              \A k \in 1..Len(queue') :
                  queue'[k].kind = kind => queue'[k].time > Cur.time

C28_RunTerminates ==
    /\ [][(Runnable /\ queue' # queue) => CycleAdvances]_vars
    /\ <>(run = "ended" /\ now = SIM_DURATION)

\* The run has ended with a pick still in the retry loop, after a
\* replenishment, under a SKU table whose reorder point is not below the
\* maximum.
C28_Witness ==
    /\ run = "ended" /\ now = SIM_DURATION
    /\ InRetry # {}
    /\ hist.replenished_at # <<>>
    /\ BadConfig(ledger)
    /\ Len(stats.queue_lengths) > 2

\* The events left in the queue by the step, and the events the step scheduled.
Pending == Range(Tail(queue))
IsNew(e) == e \notin Pending

\* No queued event is due in the past, and the queue is in time order.
QueueInTimeOrder ==
    /\ \A k \in 1..Len(queue) : queue[k].time >= now
    /\ \A k, l \in 1..Len(queue) : k < l => queue[k].time <= queue[l].time

\* Events due at the same instant are queued by priority.
QueueInPriorityOrder ==
    \A k, l \in 1..Len(queue) :
        (k < l /\ queue[k].time = queue[l].time) => queue[k].prio <= queue[l].prio

\* The step fires the head of the queue and leaves the order of the others.
FiresHead ==
    /\ now' = Cur.time
    /\ SelectSeq(queue', LAMBDA e : e \in Pending) = Tail(queue)

\* Every event the step scheduled is behind every event already queued for
\* the same instant.
NewBehindSameInstant ==
    \A k, l \in 1..Len(queue') :
        (IsNew(queue'[k]) /\ ~IsNew(queue'[l]) /\ queue'[k].time = queue'[l].time)
            => l < k

\* Every event the step scheduled is behind every event of its priority
\* already queued for the same instant.
NewBehindSamePriority ==
    \A k, l \in 1..Len(queue') :
        (/\ IsNew(queue'[k]) /\ ~IsNew(queue'[l])
         /\ queue'[k].time = queue'[l].time
         /\ queue'[k].prio = queue'[l].prio) => l < k

\* Picks i < j spawned at the same instant: rows are spawned in list order.
SpawnedTogether(i, j) ==
    i < j /\ hist.start_time[j] >= 0 /\ ArrivalOf(i) = ArrivalOf(j)

RequestedInOrder(i, j) ==
    InSeq(hist.req_order, j) =>
        /\ InSeq(hist.req_order, i)
        /\ Pos(hist.req_order, i) < Pos(hist.req_order, j)

Boxes == CHOOSE n \in 1..MaxBoxes :
             (n - 1) * box_size < aux.ScanQty /\ aux.ScanQty <= n * box_size

\* C30 as stated: for every completed pick the recorded service time equals
\* walk time + search time + handling time + scan time, where handling is
\* scaled by ceiling(requested_quantity / 10); in the optimized scenario the
\* search component of every pick is exactly 0.
C30_ServiceTimeHandlingScaled ==
    aux.pc = "recorded" =>
        \A k \in 1..Len(aux.stats.service_times) :
            /\ aux.stats.service_times[k] =
                   aux.stats.walk_times[k] + aux.stats.search_times[k]
                   + (aux.drawn.check_pick_time + aux.drawn.box_time) * Boxes
                   + aux.stats.scan_times[k]
            /\ scenario = "after" => aux.stats.search_times[k] = 0

\* C30 amended: the recorded service time equals walk time + search time +
\* handling time + scan time, where the handling time is the check-and-pick
\* time plus the per-box time scaled by ceiling(requested_quantity / 10); in
\* the optimized scenario the search component of every pick is exactly 0.
C30_ServiceTimeBoxesScaled ==
    aux.pc = "recorded" =>
        \A k \in 1..Len(aux.stats.service_times) :
            /\ aux.stats.service_times[k] =
                   aux.stats.walk_times[k] + aux.stats.search_times[k]
                   + aux.stats.pick_times[k] + aux.stats.scan_times[k]
            /\ aux.stats.pick_times[k] =
                   aux.drawn.check_pick_time + aux.drawn.box_time * Boxes
            /\ aux.stats.walk_times[k] = aux.drawn.walk_time
            /\ aux.stats.scan_times[k] = aux.drawn.scan_time
            /\ scenario = "after" => aux.stats.search_times[k] = 0
            /\ scenario = "before" => aux.stats.search_times[k] = aux.drawn.search

\* A pick of the optimized scenario for one piece more than a box was
\* recorded.
C30_Witness ==
    /\ aux.pc = "recorded" /\ scenario = "after"
    /\ aux.ScanQty = box_size + 1
    /\ aux.drawn.search > 0
    /\ Len(aux.stats.service_times) = 1
    /\ aux.stats.pick_times[1] > aux.drawn.check_pick_time + aux.drawn.box_time

\* Picks that have obtained their stock, and those that obtained it at their
\* first call, without a stockout.
PassedStock == {i \in PickIds : pick[i].pc \in {"req", "service", "done"}}
GrantedWithoutStockout == {i \in PassedStock : ~InSeq(hist.stockout_by, i)}
Attempted == {i \in PickIds : InSeq(hist.attempted_by, i)}
ScanQty == [i \in PickIds |-> tasks[i].ScanQty]

\* C31: the fill rate reported for a run is the fraction of requested
\* quantity that was fulfilled without stockout: 100 x (total quantity
\* granted without stockout) / (total quantity requested by the picks
\* attempted).
C31_FillRateByQuantity ==
    (run = "ended" /\ scenario = "after" /\ Attempted # {}) =>
        SameQuotient(calls.result.FillRate,
                     <<100 * SumOver(GrantedWithoutStockout, ScanQty),
                       SumOver(Attempted, ScanQty)>>)

\* Picks whose stock loop has met a failed check_and_pick call.
HadStockout == {i \in PickIds : pick[i].had_stockout}

\* C32: the Statistics stockouts counter is incremented at most once per pick
\* task, however many failed polls that pick makes in the retry loop: it
\* counts the picks that met a stockout, and at any time
\* stockouts <= picks_attempted.
C32_StockoutOncePerPick ==
    /\ stats.stockouts = Cardinality(HadStockout)
    /\ HadStockout \subseteq Attempted
    /\ stats.stockouts <= stats.picks_attempted

\* Two picks have met a stockout, and the ledger has seen more failed polls
\* than there are picks.
C32_Witness ==
    /\ ~IsNone(ledger)
    /\ stats.stockouts = 2
    /\ ledger.failed_picks > Len(tasks)

\* The quantity of SKU s granted to picks that passed the stock stage.
GrantedOf(s) == SumOver({i \in PassedStock : tasks[i].PartNo = s}, ScanQty)

\* C33: conservation of stock: every unit removed from the ledger is delivered
\* to a pick that proceeds to service.  In every reachable state, for each
\* SKU, (initial quantity + amounts added by replenishments - current
\* quantity) equals the quantity granted to picks that passed the stock
\* stage; a pick that is still retrying or is abandoned has removed no units.
C33_StockConserved ==
    ~IsNone(ledger) =>
        \A s \in Skus :
            InitialPieces[s] + hist.added[s] - ledger.inventory[s] = GrantedOf(s)

\* C34: ledger counter invariant: after any sequence of check_and_pick and
\* replenish calls, total_picks = successful_picks + failed_picks, and the
\* sum of the per-SKU stockout counts equals failed_picks.
C34_LedgerCounters ==
    ~IsNone(ledger) =>
        /\ ledger.total_picks = ledger.successful_picks + ledger.failed_picks
        /\ StockoutEvents(ledger) = ledger.failed_picks

\* The object has answered calls of all kinds: a success for a part that is
\* not in the ledger, failures on both SKUs, and a replenishment.
C34_Witness ==
    /\ ~IsNone(ledger)
    /\ aux.op = "check_and_pick" /\ aux.part_no \notin Skus
    /\ \A s \in Skus : ledger.stockouts[s] > 0
    /\ Replenishments(ledger) > 0
    /\ ledger.successful_picks > 0

\* A pick of a part that is not in the ledger is never in the stock retry
\* loop and is never counted as a stockout.
UnlistedNeverWaits ==
    \A i \in PickIds :
        (i <= Len(tasks) /\ tasks[i].PartNo \notin Skus) =>
            /\ pick[i].pc # "retry"
            /\ ~pick[i].had_stockout
            /\ ~InSeq(hist.stockout_by, i)

\* C35: for a part number that is not in the ledger, check_and_pick returns
\* success with the full requested quantity and leaves every SKU's quantity
\* and every stockout count unchanged; needs_replenishment is false and
\* replenish is a no-op for it (it returns 0), so such a pick never waits for
\* stock: every call it makes succeeds.
C35_UnlistedPart ==
    [][(aux'.n = aux.n + 1 /\ aux'.part_no \notin Skus) =>
          /\ ledger'.inventory = ledger.inventory
          /\ ledger'.stockouts = ledger.stockouts
          /\ ledger'.stockout_qty = ledger.stockout_qty
          /\ ledger'.failed_picks = ledger.failed_picks
          /\ aux'.op = "check_and_pick" =>
                 /\ aux'.ok /\ aux'.amount = aux'.qty
                 /\ ledger'.successful_picks = ledger.successful_picks + 1
          /\ aux'.op = "needs_replenishment" => ~aux'.ok
          /\ aux'.op = "replenish" => (ledger' = ledger /\ aux'.amount = 0)
      ]_vars

\* A part that is not in the ledger was granted a quantity that no SKU of
\* the ledger could have supplied, after failed calls for the SKUs.
C35_Witness ==
    /\ ~IsNone(ledger)
    /\ aux.op = "check_and_pick" /\ aux.part_no \notin Skus
    /\ aux.ok /\ aux.amount = MaxLedgerQty
    /\ \A s \in Skus : ledger.inventory[s] < aux.qty
    /\ ledger.failed_picks > 0 /\ ledger.successful_picks = 1

\* A step that restocks: some SKU's replenishment count moves or its
\* quantity rises.
Restocks ==
    /\ ~IsNone(ledger) /\ ~IsNone(ledger')
    /\ \E s \in Skus : \/ ledger'.replenishments[s] # ledger.replenishments[s]
                       \/ ledger'.inventory[s] > ledger.inventory[s]

\* C36: the replenishment process restocks a SKU only if, at the instant of
\* the restock, its quantity is at or below its reorder point: a SKU in state
\* Stocked is never replenished, and the replenishment count of a SKU
\* increases by exactly 1 per restock.
C36_RestockOnlyWhenLow ==
    [][Restocks =>
          \E s \in Skus :
              /\ ledger.inventory[s] <= ledger.reorder_point[s]
              /\ ledger'.replenishments =
                     [ledger.replenishments EXCEPT ![s] = @ + 1]
              /\ ledger'.inventory =
                     [ledger.inventory EXCEPT ![s] = ledger.max_pieces[s]]
      ]_vars

\* One scan restocked the empty SKU and then the SKU standing exactly at its
\* reorder point, each once.
C36_Witness ==
    /\ ~IsNone(ledger)
    /\ hist.restocked_from = {<<SkuOrder[1], 0>>, <<SkuOrder[2], ReorderPoint[SkuOrder[2]]>>}
    /\ \A s \in Skus : ledger.replenishments[s] = 1

\* Rows whose pick process has been created, and the arrival time the
\* generator computed for a row (its day has been entered by then).
Spawned == {i \in PickIds : pick[i].pc # "unborn"}
ComputedArrival(i) == arrival_time_min(gen.day_start_times, tasks[i])

\* C37: each pick process is spawned at exactly its computed arrival time:
\* the generator's spawn times are non-decreasing in replay order and, at the
\* moment a pick process starts, the simulation clock equals that task's
\* arrival_time_min (the generator never lags behind or runs ahead of the
\* recorded arrivals).
C37_SpawnedAtArrival ==
    /\ \A i \in Spawned :
          /\ pick[i].pc = "init" => now = ComputedArrival(i)
          /\ pick[i].pc # "init" => hist.start_time[i] = ComputedArrival(i)
          /\ \A j \in Spawned : j < i => ComputedArrival(j) <= ComputedArrival(i)
          /\ \A j \in PickIds : j < i => j \in Spawned
    /\ gen.pc = "wait" =>
          \E k \in 1..Len(queue) : /\ queue[k].kind = "gen"
                                   /\ queue[k].time = gen.arrival

\* Three picks started at three different times, the last one in the second
\* day, and the generator's clipping was used.
C37_Witness ==
    /\ hist.start_time[1] >= 0
    /\ hist.start_time[2] > hist.start_time[1]
    /\ hist.start_time[3] > hist.start_time[2]
    /\ hist.start_time[3] = ComputedArrival(3)
    /\ tasks[3].DeliveryHour * 60 + tasks[3].DeliveryMinute > DAY_DURATION - 1

\* The service time recorded so far, and the time the picks now in service
\* have held their slot.
RecordedService == SumSeq(Values(stats.service_times))
ServiceUnderWay == SumOver(InService, [i \in PickIds |-> now - hist.grant_time[i]])

\* C38: the utilization computed by run_simulation never exceeds 100%: in
\* every run the sum of the recorded service times is at most n_pickers x
\* SIM_DURATION.  At every instant the service recorded and under way is at
\* most n_pickers x the time elapsed, which is at most SIM_DURATION.
C38_UtilizationAtMost100 ==
    /\ now <= SIM_DURATION
    /\ RecordedService + ServiceUnderWay <= n_pickers * now
    /\ RecordedService <= n_pickers * SIM_DURATION
    /\ run = "ended" =>
          calls.result.Utilization[1] <= 100 * calls.result.Utilization[2]

\* Both pickers of a pool of two have been busy from minute 0 on: the
\* recorded service time is all the time the pool had.
C38_Witness ==
    /\ n_pickers = 2 /\ now > 0
    /\ RecordedService = n_pickers * now

\* Every event due at the current time has been processed: the clock is
\* about to move on.
InstantOver == queue = <<>> \/ Head(queue).time > now

\* C39: at every instant of a run, len(wait_times) - picks_completed equals
\* the number of picks currently in service (slot granted, service not
\* finished) and is therefore between 0 and the pool capacity;
\* len(service_times) = len(flow_times) = picks_completed at every instant.
C39_WaitSamplesCountHolders ==
    /\ Len(stats.wait_times) - stats.picks_completed = Len(users)
    /\ Len(users) >= 0 /\ Len(users) <= n_pickers
    /\ Len(stats.service_times) = stats.picks_completed
    /\ Len(stats.flow_times) = stats.picks_completed

\* C39, amended: len(wait_times) - picks_completed equals the number of picks
\* whose service timeout is running (they have resumed after the grant of
\* their slot and recorded their wait), between 0 and the pool capacity; a
\* pick that has just been granted a slot is counted once its grant event
\* has been processed, so the number equals the slots held once the events
\* of the instant have been processed.  len(service_times) =
\* len(flow_times) = picks_completed at every instant.
C39_WaitSamplesCountService ==
    /\ Len(stats.wait_times) - stats.picks_completed = Cardinality(InService)
    /\ \A i \in InService : InSeq(users, i)
    /\ Cardinality(InService) >= 0 /\ Cardinality(InService) <= n_pickers
    /\ InstantOver => Cardinality(InService) = Len(users)
    /\ Len(stats.service_times) = stats.picks_completed
    /\ Len(stats.flow_times) = stats.picks_completed

\* In a pool of two, one pick has completed, one is in service and a third
\* has just been granted the other slot: two wait samples, one completion,
\* two slots held.
C39_Witness ==
    /\ n_pickers = 2
    /\ stats.picks_completed = 1
    /\ Cardinality(InService) = 1
    /\ Len(stats.wait_times) = 2
    /\ Len(users) = 2
    /\ ~InstantOver

\* Picks that may still call check_and_pick: their process has been created
\* and they have not left the stock loop.
InStockLoop == {i \in PickIds : pick[i].pc \in {"init", "retry"}}

\* A step in which check_and_pick is called: by one pick of the stock loop,
\* and if the call succeeds that pick leaves the loop.
CallsLedger ==
    /\ ~IsNone(ledger) /\ ~IsNone(ledger')
    /\ ledger'.total_picks # ledger.total_picks

OneCallByLoopingPick ==
    \E i \in InStockLoop :
        /\ ledger'.total_picks = ledger.total_picks + 1
        /\ \A j \in PickIds \ {i} : pick'[j] = pick[j]
        /\ \/ /\ ledger'.successful_picks = ledger.successful_picks + 1
              /\ pick'[i].pc = "req"
           \/ /\ ledger'.successful_picks = ledger.successful_picks
              /\ pick'[i].pc = "retry"

\* C40: each pick task obtains stock at most once: for any pick at most one
\* of its check_and_pick calls returns success, after which it never calls
\* check_and_pick again; hence at any time the ledger's successful_picks <=
\* picks_attempted.  The successful calls are as many as the picks that have
\* left the stock loop with their stock.
C40_StockObtainedOnce ==
    /\ [](~IsNone(ledger) =>
            /\ ledger.successful_picks = Cardinality(PassedStock)
            /\ PassedStock \subseteq Attempted
            /\ ledger.successful_picks <= stats.picks_attempted)
    /\ [][CallsLedger => OneCallByLoopingPick]_vars

\* Every pick has obtained its stock, one of them after a partial fulfilment
\* and failed polls.
C40_Witness ==
    /\ ~IsNone(ledger)
    /\ ledger.successful_picks = Len(tasks)
    /\ stats.picks_attempted = Len(tasks)
    /\ ledger.failed_picks > 1
    /\ \E i \in PassedStock : i \in hist.partial

====
